---- MODULE Spec2Model ----
(***************************************************************************)
(* Model of the NUT (Network UPS Tools) client of vpikus/nut-monitor:      *)
(* the buffered line transport NutSock (nutsock.py) and the session and    *)
(* command codec NutSession (nut_monitor_client/nutclient.py), the error   *)
(* handler of the HTTP API (main.py) and the loop of the metrics poller    *)
(* (nut_monitor_prometheus/prometeus.py).                                  *)
(*                                                                         *)
(* A Python str is a sequence of one-character strings.  The value None    *)
(* is 0 for the socket reference, and the empty tuple for an optional      *)
(* string (<<s>> is the string s).  A blocking call is split at the        *)
(* socket read: one step per recv, and one step for what the handler does  *)
(* once read_until has found the delimiter.                                *)
(***************************************************************************)
EXTENDS Integers, Sequences, FiniteSets, TLC

VARIABLES
    sock,           \* NutSock.sock: 0 is None, n > 0 the n-th socket created
    raw_queue,      \* NutSock.raw_queue: <<>> is None, <<s>> the str s
    open_fds,       \* the sockets that were created and not closed
    nfds,           \* number of sockets created so far
    wire,           \* bytes the server has sent that recv has not yet returned
    peer,           \* "none" not connected, "open", "eof" the server has closed
    sent,           \* the bytes objects handed to sendall, in order
    pc,             \* "idle", or "read" inside the loop of read_until
    buf,            \* the local buf of read_until
    cur,            \* the operation in progress and its local variables
    ret,            \* outcome of the last operation that ended
    rcvd,           \* history: every byte recv has returned on this NutSock
    results,        \* history: the values read_until has returned, in order
    nrecv,          \* history: recv calls of the current read_until call, counted up to 2
    spin,           \* history: parity of the recv calls that returned b""
    recv_ok,        \* history: every recv so far has returned at least one byte
    nread,          \* history: lines the current operation has read
    stale,          \* history: what the server had sent and was unread when the
                    \* current operation started, in raw_queue and on the socket
    log,            \* history: the first word of every line written, and whether the
                    \* first line a session method has read after it was "OK\n"
    script,         \* the scenario: what the server sends on each new connection,
                    \* unasked, how often the caller opens the session, how many
                    \* domain operations it makes, and whether it goes on with
                    \* the session after one has failed
    sess_sock,      \* NutSession.sock: TRUE the NutSock, FALSE None
    authentication, \* NutSession.authentication: <<>> None, else <<[username, password]>>
    nops,           \* number of operations the caller has started
    ndomain,        \* number of them that are GET, LIST, SET or INSTCMD operations
    client,         \* the sessions one NutClient has made, the NutSock objects and
                    \* the connections they refer to (used where a scenario has
                    \* more than one session)
    poller          \* the metrics poller (prometeus.py): the observations it
                    \* exports, and where its loop is

vars == <<sock, raw_queue, open_fds, nfds, wire, peer, sent, pc, buf, cur, ret,
          rcvd, results, nrecv, spin, recv_ok, nread, stale, log, script, sess_sock,
          authentication, nops, ndomain, client, poller>>

sockvars == <<sock, raw_queue, open_fds, nfds, wire, peer, sent, log>>
histvars == <<rcvd, results, nrecv, spin, recv_ok, nread, stale>>
sessvars == <<script, sess_sock, authentication, ndomain, client, poller>>

----------------------------------------------------------------------------
(* Bounds of the model *)

MaxStream == 4      \* longest byte stream of the transport scenarios
MaxFds == 2         \* sockets one NutSock may create
MaxSent == 1        \* commands written in a transport scenario
MaxOps == 3         \* operations a caller starts on one session
MaxDomain == 1      \* GET, LIST, SET and INSTCMD operations among them

(* sock.recv(50) *)
RecvSize == 50

----------------------------------------------------------------------------
(* Python str and list helpers *)

NL == <<"\n">>
None == <<>>
Some(s) == <<s>>

Min(a, b) == IF a < b THEN a ELSE b

\* s[i:] with 0 <= i
Drop(s, i) == SubSeq(s, i + 1, Len(s))

\* s[:i] with 0 <= i
Take(s, i) == SubSeq(s, 1, Min(i, Len(s)))

\* s.startswith(p)
StartsWith(s, p) == Len(p) <= Len(s) /\ SubSeq(s, 1, Len(p)) = p

\* t in s
Contains(s, t) == \E i \in 1..(Len(s) - Len(t) + 1) : SubSeq(s, i, i + Len(t) - 1) = t

\* s.find(t): the 0-based place of the first t in s, -1 without one
Find(s, t) ==
    IF ~Contains(s, t) THEN -1
    ELSE (CHOOSE i \in 1..(Len(s) - Len(t) + 1) :
            /\ SubSeq(s, i, i + Len(t) - 1) = t
            /\ \A j \in 1..(i - 1) : SubSeq(s, j, j + Len(t) - 1) # t) - 1

\* "".join(list)
RECURSIVE Concat(_)
Concat(list) == IF list = <<>> THEN <<>> ELSE Head(list) \o Concat(Tail(list))

\* self.raw_queue or ""
OrEmpty(opt) == IF opt = None THEN <<>> ELSE opt[1]

----------------------------------------------------------------------------
(* bytes and str: str.encode("utf-8") and bytes.decode("utf-8") *)

\* the characters of the codes 32..126, in order (U+0060 is the grave accent)
Printable ==
  <<
    " ", "!", "\"", "#", "$", "%", "&", "'", "(", ")", "*", "+", ",", "-", ".", "/",
    "0", "1", "2", "3", "4", "5", "6", "7", "8", "9", ":", ";", "<", "=", ">", "?",
    "@", "A", "B", "C", "D", "E", "F", "G", "H", "I", "J", "K", "L", "M", "N", "O",
    "P", "Q", "R", "S", "T", "U", "V", "W", "X", "Y", "Z", "[", "\\", "]", "^", "_",
    "U+0060", "a", "b", "c", "d", "e", "f", "g", "h", "i", "j", "k", "l", "m", "n", "o",
    "p", "q", "r", "s", "t", "u", "v", "w", "x", "y", "z", "{", "|", "}", "~"
  >>

\* a character outside ASCII: U+00E9, two bytes in UTF-8
EAcute == "U+00E9"
EAcuteBytes == <<195, 169>>

\* chr(b) for the ASCII codes of text lines
Chr(b) == IF b = 10 THEN "\n" ELSE Printable[b - 31]

\* ord(c)
Ord(c) == IF c = "\n" THEN 10 ELSE 31 + (CHOOSE i \in 1..Len(Printable) : Printable[i] = c)

\* str.encode("utf-8"), computed by halves
RECURSIVE Encode(_)
Encode(s) ==
    IF s = <<>> THEN <<>>
    ELSE IF Len(s) = 1 THEN (IF s[1] = EAcute THEN EAcuteBytes ELSE <<Ord(s[1])>>)
    ELSE Encode(SubSeq(s, 1, Len(s) \div 2)) \o Encode(SubSeq(s, Len(s) \div 2 + 1, Len(s)))

\* whether bytes.decode("utf-8") accepts the bytes: a lead byte needs its
\* continuation byte in the same bytes object, and a continuation byte its lead
Decodable(bytes) ==
    \A i \in 1..Len(bytes) :
        \/ bytes[i] < 128
        \/ bytes[i] = EAcuteBytes[1] /\ i < Len(bytes) /\ bytes[i + 1] = EAcuteBytes[2]
        \/ bytes[i] = EAcuteBytes[2] /\ i > 1 /\ bytes[i - 1] = EAcuteBytes[1]

\* bytes.decode("utf-8") of bytes it accepts, computed by halves that do not
\* part a lead byte from its continuation
RECURSIVE Decode(_)
Decode(bytes) ==
    IF bytes = <<>> THEN <<>>
    ELSE IF Len(bytes) = 1 THEN <<Chr(bytes[1])>>
    ELSE IF Len(bytes) = 2 /\ bytes[1] >= 128 THEN <<EAcute>>
    ELSE LET half == Len(bytes) \div 2
             m == IF bytes[half] = EAcuteBytes[1] THEN half + 1 ELSE half
         IN Decode(SubSeq(bytes, 1, m)) \o Decode(SubSeq(bytes, m + 1, Len(bytes)))

----------------------------------------------------------------------------
(* How an operation ends *)

\* the local variables of an operation: its name, the place it has reached, the
\* sub_cmd and full_cmd of the codec, its arguments and what it has collected
Ctx(op, stage, sub_cmd, full_cmd, args, acc) ==
    [op |-> op, stage |-> stage, sub_cmd |-> sub_cmd, full_cmd |-> full_cmd,
     args |-> args, acc |-> acc, until |-> <<>>]

NoCur == Ctx("none", "none", <<>>, <<>>, <<>>, <<>>)

\* a NutClient that has made no session
NoClient == [sess |-> <<>>, socks |-> <<>>, conn |-> <<>>, last |-> 0]

\* a poller that has not started
NoFetch == [ups |-> "", listed |-> <<>>, statistics |-> <<>>, stage |-> "none", exc |-> "none"]
NoPoller == [published |-> {}, round |-> 0, todo |-> <<>>, pc |-> "start", state |-> "OK",
             failed |-> {}, dropped |-> {}, last |-> NoFetch, gone |-> {}, inited |-> FALSE,
             delay |-> 0, cycle |-> "none"]

\* an outcome: the operation, "return" or the class of the exception, the value
\* returned, the reply line the outcome rests on, and what the codec has handed
\* to the method: the text __exec_get has returned, the collection the
\* consumer of ___exec_list has filled
NoRet == [op |-> "none", kind |-> "none", value |-> <<>>, line |-> <<>>, raw |-> <<>>]

\* the operation returns value to its caller
Return(op, value, line) ==
    /\ pc' = "idle"
    /\ buf' = <<>>
    /\ cur' = NoCur
    /\ ret' = [op |-> op, kind |-> "return", value |-> value, line |-> line, raw |-> None]

\* the exception exc leaves the operation and reaches its caller
Raise(op, exc, line) ==
    /\ pc' = "idle"
    /\ buf' = <<>>
    /\ cur' = NoCur
    /\ ret' = [op |-> op, kind |-> exc, value |-> <<>>, line |-> line, raw |-> None]

----------------------------------------------------------------------------
(* NutSock: nutsock.py *)

\* what the server does when it has received a command: the text it sends,
\* and whether it then keeps the connection open or closes it
Reaction(text, then) == [text |-> text, then |-> then]

\* connect, lines 49-51: a new socket replaces self.sock, raw_queue is kept
Connect(established, stream, then) ==
    /\ nfds' = nfds + 1
    /\ sock' = nfds + 1
    /\ open_fds' = open_fds \cup {nfds + 1}
    /\ wire' = IF established THEN stream ELSE <<>>
    /\ peer' = IF established THEN then ELSE "none"
    /\ UNCHANGED raw_queue

\* __exit__, lines 36-39: self.sock.close() if there is a socket, and both
\* fields become None
Exit ==
    /\ open_fds' = IF sock # 0 THEN open_fds \ {sock} ELSE open_fds
    /\ wire' = IF sock # 0 THEN <<>> ELSE wire
    /\ peer' = IF sock # 0 THEN "none" ELSE peer
    /\ sock' = 0
    /\ raw_queue' = None
    /\ UNCHANGED nfds

CmdOutcomes == {"ok", "AttributeError", "OSError"}

\* the first word of a command
Word(command) ==
    IF Find(command, <<" ">>) = -1 THEN command ELSE Take(command, Find(command, <<" ">>))

\* the log once a line was read: the line answers the last command written if
\* that has no answer yet
Answered(l, line) ==
    IF l # <<>> /\ l[Len(l)].answer = "none"
    THEN [l EXCEPT ![Len(l)].answer = IF line = <<"O", "K", "\n">> THEN "OK" ELSE "other"]
    ELSE l

\* the histories a write adds to: as they are, as they are when an operation
\* starts, and as they are when the operation has read line
Now == [sent |-> sent, log |-> log]
Fresh == [sent |-> <<>>, log |-> log]
After(line) == [sent |-> sent, log |-> Answered(log, line)]

\* no write: the histories are as before it
NoWrite(before) == sent' = before.sent /\ log' = before.log

\* cmd, line 64: self.sock.sendall((command + "\n").encode()), and the reaction
\* of the server to the bytes.  None has no sendall; a socket that is not
\* connected, or whose peer has gone, can fail the write.
Cmd(command, reactions, out, before) ==
    \/ /\ out = "AttributeError"
       /\ sock = 0
       /\ NoWrite(before)
       /\ UNCHANGED <<wire, peer>>
    \/ /\ out = "OSError"
       /\ sock # 0
       /\ peer \in {"none", "eof"}
       /\ NoWrite(before)
       /\ UNCHANGED <<wire, peer>>
    \/ /\ out = "ok"
       /\ sock # 0
       /\ peer \in {"open", "eof"}
       /\ sent' = Append(before.sent, Encode(command \o NL))
       /\ log' = Append(before.log, [word |-> Word(command), answer |-> "none"])
       /\ IF peer = "open"
          THEN \E r \in reactions : wire' = wire \o Encode(r.text) /\ peer' = r.then
          ELSE UNCHANGED <<wire, peer>>

\* buf = "": the call does not look at the carry-over
ReadUntilStart_empty(queue, untilText, ctx) ==
    /\ buf' = <<>>
    /\ pc' = "read"
    /\ nrecv' = 0
    /\ cur' = [ctx EXCEPT !.until = untilText]

\* read_until, line 79, and the operation now waits in the loop of line 80
\* (queue is self.raw_queue as the call finds it)
ReadUntilStart(queue, untilText, ctx) ==
    /\ buf' = OrEmpty(queue)
    /\ pc' = "read"
    /\ nrecv' = 0
    /\ cur' = [ctx EXCEPT !.until = untilText]

\* buf[pos + 1:] as the new raw_queue: the character after the delimiter is lost
ReadUntilResult_skip(b, untilText) ==
    [response |-> Take(b, Find(b, untilText) + Len(untilText)),
     rest     |-> Drop(b, Find(b, untilText) + Len(untilText) + 1)]

\* read_until, lines 82-84: the response and the new raw_queue
ReadUntilResult(b, untilText) ==
    [response |-> Take(b, Find(b, untilText) + Len(untilText)),
     rest     |-> Drop(b, Find(b, untilText) + Len(untilText))]

\* the line read_until is about to return
Line == ReadUntilResult(buf, cur.until).response

\* the raw_queue read_until leaves behind, line 83
Carry_all == Some(buf)
Carry == Some(ReadUntilResult(buf, cur.until).rest)

\* read_until has left its loop and returns Line: lines 82-86
ReadReturns ==
    /\ pc = "read"
    /\ Contains(buf, cur.until)
    /\ results' = Append(results, Line)
    /\ nread' = nread + 1
    /\ UNCHANGED <<rcvd, spin, recv_ok, stale>>

\* read_until returns Line to a caller that writes nothing in the same step
ReadDone == ReadReturns /\ log' = Answered(log, Line)

\* one pass of the loop, lines 80-81: buf += self.sock.recv(50).decode("utf-8")
recv ==
    /\ pc = "read"
    /\ ~Contains(buf, cur.until)
    /\ \/ /\ sock = 0
          /\ Raise(cur.op, "AttributeError", <<>>)
          /\ UNCHANGED <<sockvars, histvars>>
       \/ /\ sock # 0 /\ peer = "none"
          /\ Raise(cur.op, "OSError", <<>>)
          /\ UNCHANGED <<sockvars, histvars>>
       \/ /\ sock # 0 /\ peer # "none" /\ wire # <<>>
          /\ \E k \in 1..Min(RecvSize, Len(wire)) :
                /\ wire' = Drop(wire, k)
                /\ rcvd' = rcvd \o Take(wire, k)
                /\ IF Decodable(Take(wire, k))
                   THEN /\ buf' = buf \o Decode(Take(wire, k))
                        /\ UNCHANGED <<pc, cur, ret>>
                   ELSE Raise(cur.op, "UnicodeDecodeError", <<>>)
          /\ nrecv' = Min(nrecv + 1, 2)
          /\ UNCHANGED <<sock, raw_queue, open_fds, nfds, peer, sent, log, results, spin,
                         recv_ok, nread, stale>>
       \/ /\ sock # 0 /\ peer = "eof" /\ wire = <<>>
          /\ buf' = buf \o <<>>
          /\ spin' = ~spin
          /\ recv_ok' = FALSE
          /\ UNCHANGED <<sockvars, pc, cur, ret, rcvd, results, nrecv, nread, stale>>
       \/ /\ sock # 0 /\ peer = "open" /\ wire = <<>>
          /\ Raise(cur.op, "timeout", <<>>)
          /\ recv_ok' = FALSE
          /\ UNCHANGED <<sockvars, rcvd, results, nrecv, spin, nread, stale>>
    /\ UNCHANGED <<sessvars, nops>>

----------------------------------------------------------------------------
(* The transport alone: a caller of NutSock and a server that sends a stream *)

RECURSIVE SeqsUpTo(_, _)
SeqsUpTo(S, n) ==
    IF n = 0 THEN {<<>>}
    ELSE SeqsUpTo(S, n - 1) \cup
         {Append(q, x) : q \in {r \in SeqsUpTo(S, n - 1) : Len(r) = n - 1}, x \in S}

\* the byte streams a server sends in the transport scenarios: text of the
\* letter a and the newline, and one line with a character outside ASCII
Streams == SeqsUpTo({97, 10}, MaxStream) \cup {EAcuteBytes \o <<10>>}

\* NutSock.connect()
connect ==
    /\ pc = "idle"
    /\ nfds < MaxFds
    /\ \/ /\ Connect(TRUE, script.stream, script.then)
          /\ ret' = [NoRet EXCEPT !.op = "connect", !.kind = "return"]
       \/ /\ Connect(FALSE, <<>>, "none")
          /\ ret' = [NoRet EXCEPT !.op = "connect", !.kind = "OSError"]
    /\ UNCHANGED <<sent, log, pc, buf, cur, histvars, sessvars, nops>>

\* NutSock.cmd(command)
cmd ==
    /\ pc = "idle"
    /\ Len(sent) < MaxSent
    /\ \E out \in CmdOutcomes :
          /\ Cmd(<<"V", "E", "R">>, {Reaction(<<>>, peer)}, out, Now)
          /\ ret' = [NoRet EXCEPT !.op = "cmd", !.kind = IF out = "ok" THEN "return" ELSE out]
    /\ UNCHANGED <<sock, raw_queue, open_fds, nfds, pc, buf, cur, histvars, sessvars, nops>>

\* NutSock.read_until("\n") is called
read_until ==
    /\ pc = "idle"
    /\ ReadUntilStart(raw_queue, NL, Ctx("read_until", "loop", <<>>, <<>>, <<>>, <<>>))
    /\ UNCHANGED <<sockvars, ret, rcvd, results, spin, recv_ok, nread, stale, sessvars, nops>>

\* NutSock.read_until returns to its caller
read_until_return ==
    /\ ReadReturns
    /\ cur.op = "read_until"
    /\ raw_queue' = Carry
    /\ Return("read_until", Line, Line)
    /\ UNCHANGED <<sock, open_fds, nfds, wire, peer, sent, log, nrecv, sessvars, nops>>

\* NutSock.__exit__()
sock_exit ==
    /\ pc = "idle"
    /\ Exit
    /\ ret' = [NoRet EXCEPT !.op = "__exit__", !.kind = "return"]
    /\ UNCHANGED <<sent, log, pc, buf, cur, histvars, sessvars, nops>>

InitSock ==
    /\ sock = 0
    /\ raw_queue = None
    /\ open_fds = {}
    /\ nfds = 0
    /\ wire = <<>>
    /\ peer = "none"
    /\ sent = <<>>
    /\ pc = "idle"
    /\ buf = <<>>
    /\ cur = NoCur
    /\ ret = NoRet
    /\ rcvd = <<>>
    /\ results = <<>>
    /\ nrecv = 0
    /\ spin = FALSE
    /\ recv_ok = TRUE
    /\ nread = 0
    /\ stale = [queue |-> <<>>, wire |-> <<>>]
    /\ log = <<>>
    /\ client = NoClient
    /\ poller = NoPoller
    /\ script \in [stream : Streams, then : {"open", "eof"}, calls : {0}, persist : {FALSE},
                 opens : {MaxFds}]
    /\ sess_sock = FALSE
    /\ authentication = None
    /\ nops = 0
    /\ ndomain = 0

NextSock ==
    \/ connect
    \/ cmd
    \/ read_until
    \/ recv
    \/ read_until_return
    \/ sock_exit

SpecSock == InitSock /\ [][NextSock]_vars

FairSpecSock == SpecSock /\ WF_vars(recv) /\ WF_vars(read_until_return)

----------------------------------------------------------------------------
(* Claims about the transport *)

\* the lines of a text, each with its newline; text after the last newline is
\* no line
RECURSIVE LinesOf(_, _)
LinesOf(s, acc) ==
    IF s = <<>> THEN <<>>
    ELSE IF Head(s) = "\n" THEN <<Append(acc, "\n")>> \o LinesOf(Tail(s), <<>>)
    ELSE LinesOf(Tail(s), Append(acc, Head(s)))

IsAscii(bytes) == \A i \in 1..Len(bytes) : bytes[i] < 128

\* the first connection of a NutSock is open, the server sends ASCII text, and
\* every recv so far has returned at least one byte
FirstConnection == nfds = 1 /\ sock # 0 /\ recv_ok /\ IsAscii(script.stream)

\* C1: however the stream is cut into recv results of 1..50 bytes, the values
\* read_until("\n") has returned are the first lines of the stream in order,
\* each with exactly one newline, at its end, and the values returned so far
\* followed by the carry-over (raw_queue between calls, buf inside a call) are
\* exactly the bytes received so far.
C1_Reassembly ==
    FirstConnection =>
        /\ Encode(Concat(results) \o (IF pc = "read" THEN buf ELSE OrEmpty(raw_queue))) = rcvd
        /\ Len(results) <= Len(LinesOf(Decode(script.stream), <<>>))
        /\ results = SubSeq(LinesOf(Decode(script.stream), <<>>), 1, Len(results))
        /\ \A i \in 1..Len(results) :
              /\ results[i][Len(results[i])] = "\n"
              /\ \A j \in 1..(Len(results[i]) - 1) : results[i][j] # "\n"

\* a second line was put together from two recv results and a byte received
\* past its newline is kept for the next call
C1_Witness ==
    /\ FirstConnection
    /\ pc = "idle"
    /\ Len(results) = 2
    /\ nrecv >= 2
    /\ raw_queue = Some(<<"a">>)
    /\ ret.op = "read_until" /\ ret.kind = "return"

C24_CmdUnconnected ==
    [][(pc = "idle" /\ (sock = 0 \/ peer = "none") /\ ret'.op = "cmd" /\ ret' # ret) =>
          /\ ret'.kind = "NutClientConnectError"
          /\ sent' = sent]_vars

\* C32: a NutSock that has established a connection has an empty buffer, so
\* that no read on the connection returns what was received on an earlier one,
\* and __exit__ leaves neither a socket reference nor a buffer.
C32_FreshBuffer ==
    [][/\ (nfds' = nfds + 1 /\ peer' # "none") => OrEmpty(raw_queue') = <<>>
       /\ (ret'.op = "__exit__" /\ ret' # ret) => (sock' = 0 /\ raw_queue' = None)]_vars

\* C3: every read_until("\n") that has started ends, with a line or an error.
C3_ReadTerminates == (pc = "read") ~> (pc = "idle")

----------------------------------------------------------------------------
(* NutSession: the text of the protocol *)

\* OK\n
s_OK ==
    <<"O", "K", "\n">>

\* ERR 
s_ERR ==
    <<"E", "R", "R", " ">>

\* USERNAME 
s_USERNAME ==
    <<"U", "S", "E", "R", "N", "A", "M", "E", " ">>

\* PASSWORD 
s_PASSWORD ==
    <<"P", "A", "S", "S", "W", "O", "R", "D", " ">>

\* LOGIN 
s_LOGIN ==
    <<"L", "O", "G", "I", "N", " ">>

\* LOGOUT
s_LOGOUT ==
    <<"L", "O", "G", "O", "U", "T">>

\* Goodbye...\n
s_Goodbye ==
    <<"G", "o", "o", "d", "b", "y", "e", ".", ".", ".", "\n">>

\* OK Goodbye\n
s_OK_Goodbye ==
    <<"O", "K", " ", "G", "o", "o", "d", "b", "y", "e", "\n">>

\* ERR ACCESS-DENIED\n
s_ACCESS_DENIED ==
    <<"E", "R", "R", " ", "A", "C", "C", "E", "S", "S", "-", "D", "E", "N", "I", "E", "D", "\n">>

\* ERR UNKNOWN-COMMAND\n
s_UNKNOWN_COMMAND ==
    <<"E", "R", "R", " ", "U", "N", "K", "N", "O", "W", "N", "-", "C", "O", "M", "M", "A", "N",
      "D", "\n">>

\* ups1
s_ups1 ==
    <<"u", "p", "s", "1">>

\* u
s_user ==
    <<"u">>

\* p
s_pass ==
    <<"p">>

\* GET 
s_GET ==
    <<"G", "E", "T", " ">>

\* LIST 
s_LIST ==
    <<"L", "I", "S", "T", " ">>

\* SET 
s_SET ==
    <<"S", "E", "T", " ">>

\* INSTCMD 
s_INSTCMD ==
    <<"I", "N", "S", "T", "C", "M", "D", " ">>

----------------------------------------------------------------------------
(* NutSession: how it uses its NutSock *)

\* NutSock.read_line(), the read of one line that every NutSession method
\* calls.  nutsock.py defines no read_line; the spec's Transport.readLine is
\* "the next newline-terminated line, including the terminator", which is
\* read_until("\n"), and that is how it is taken here.
read_line(queue, ctx) == ReadUntilStart(queue, NL, ctx)

\* NutSock.close(), which NutSession.__exit__ calls.  nutsock.py defines no
\* close; the spec's Transport.close "releases the socket; safe to call
\* multiple times", which is the body of NutSock.__exit__.
close == Exit

\* self.sock.cmd(command) and then self.sock.read_line(): the command is
\* written, and the operation waits for a line unless the write has failed
Exchange(command, reactions, queue, ctx, before) ==
    \E out \in CmdOutcomes :
        /\ Cmd(command, reactions, out, before)
        /\ IF out = "ok"
           THEN read_line(queue, ctx) /\ ret' = NoRet
           ELSE Raise(ctx.op, out, <<>>) /\ UNCHANGED nrecv

\* the caller starts an operation on the session; the histories of an
\* operation start empty, and stale keeps what the stream holds
Begin ==
    /\ pc = "idle"
    /\ nops < MaxOps
    /\ nops' = nops + 1
    /\ nread' = 0
    /\ rcvd' = <<>>
    /\ results' = <<>>
    /\ recv_ok' = TRUE
    /\ stale' = [queue |-> OrEmpty(raw_queue), wire |-> wire]

\* the caller starts a domain operation: it makes script.calls of them, and
\* after one has failed it goes on only if script.persist
Domain ==
    /\ Begin
    /\ ndomain < script.calls
    /\ script.persist \/ ret.kind \in {"none", "return"}
    /\ ndomain' = ndomain + 1

\* a method of a session whose sock is None: None has no attribute cmd or connect
NoSock(op) ==
    /\ ~sess_sock
    /\ Raise(op, "AttributeError", <<>>)
    /\ NoWrite(Fresh)
    /\ UNCHANGED <<sock, raw_queue, open_fds, nfds, wire, peer, nrecv>>

----------------------------------------------------------------------------
(* The server *)

\* to USERNAME, PASSWORD and LOGIN: accepted, refused, no answer, or the
\* connection is closed
AuthReactions ==
    {Reaction(s_OK, "open"), Reaction(s_ACCESS_DENIED, "open"),
     Reaction(<<>>, "open"), Reaction(<<>>, "eof")}

\* to LOGOUT: one of the two farewells and the connection is closed, an
\* error line, no answer, or the connection is closed without a farewell
LogoutReactions ==
    {Reaction(s_Goodbye, "eof"), Reaction(s_OK_Goodbye, "eof"),
     Reaction(s_UNKNOWN_COMMAND, "open"), Reaction(<<>>, "open"), Reaction(<<>>, "eof")}

----------------------------------------------------------------------------
(* NutSession: open, authenticate, log in, log out, close *)

\* the credentials a session is created with: none, both, or one of them empty
AuthInputs ==
    {None,
     Some([username |-> s_user, password |-> s_pass]),
     Some([username |-> s_user, password |-> <<>>]),
     Some([username |-> <<>>, password |-> s_pass])}

\* username, password, login: lines 145, 163, 175
Rejected(raw_result) == StartsWith(raw_result, s_ERR) \/ raw_result # s_OK

\* logout, line 151
Farewell(raw_result) == raw_result \in {s_Goodbye, s_OK_Goodbye}

\* __enter__, lines 115-116: self.sock.connect()
enter ==
    /\ Begin
    /\ \/ NoSock("__enter__")
       \/ /\ sess_sock
          /\ nfds < MaxFds
          /\ nfds < script.opens
          /\ \/ /\ Connect(TRUE, script.stream, script.then)
                /\ pc' = "run"
                /\ cur' = Ctx("__enter__", "connected", <<>>, <<>>, <<>>, <<>>)
                /\ ret' = NoRet
                /\ UNCHANGED buf
             \/ /\ Connect(FALSE, <<>>, "none")
                /\ Raise("__enter__", "OSError", <<>>)
          /\ NoWrite(Fresh)
          /\ UNCHANGED nrecv
    /\ UNCHANGED <<spin, sessvars>>

\* __enter__, lines 117-122, the password part: lines 120-122
EnterPassword(queue, before) ==
    IF authentication # None /\ authentication[1].password # <<>>
    THEN Exchange(s_PASSWORD \o authentication[1].password, AuthReactions, queue,
                  Ctx("__enter__", "password", <<>>, <<>>, <<>>, <<>>), before)
    ELSE /\ Return("__enter__", <<>>, <<>>)
         /\ NoWrite(before)
         /\ UNCHANGED <<wire, peer, nrecv>>

\* __enter__, lines 117-122, once the connection is there
enter_auth ==
    /\ pc = "run"
    /\ cur.op = "__enter__" /\ cur.stage = "connected"
    /\ IF authentication # None /\ authentication[1].username # <<>>
       THEN Exchange(s_USERNAME \o authentication[1].username, AuthReactions, raw_queue,
                     Ctx("__enter__", "username", <<>>, <<>>, <<>>, <<>>), Now)
       ELSE EnterPassword(raw_queue, Now)
    /\ UNCHANGED <<sock, raw_queue, open_fds, nfds, rcvd, results, spin, recv_ok, nread,
                   stale, sessvars, nops>>

\* auth(username, password), line 139
auth ==
    /\ Begin
    /\ \/ NoSock("auth")
       \/ /\ sess_sock
          /\ Exchange(s_USERNAME \o s_user, AuthReactions, raw_queue,
                      Ctx("auth", "username", <<>>, <<>>, <<s_user, s_pass>>, <<>>), Fresh)
          /\ UNCHANGED <<sock, raw_queue, open_fds, nfds>>
    /\ UNCHANGED <<spin, sessvars>>

\* username(username), line 161
username ==
    /\ Begin
    /\ \/ NoSock("username")
       \/ /\ sess_sock
          /\ Exchange(s_USERNAME \o s_user, AuthReactions, raw_queue,
                      Ctx("username", "username", <<>>, <<>>, <<s_user>>, <<>>), Fresh)
          /\ UNCHANGED <<sock, raw_queue, open_fds, nfds>>
    /\ UNCHANGED <<spin, sessvars>>

\* password(password), line 173
password ==
    /\ Begin
    /\ \/ NoSock("password")
       \/ /\ sess_sock
          /\ Exchange(s_PASSWORD \o s_pass, AuthReactions, raw_queue,
                      Ctx("password", "password", <<>>, <<>>, <<s_pass>>, <<>>), Fresh)
          /\ UNCHANGED <<sock, raw_queue, open_fds, nfds>>
    /\ UNCHANGED <<spin, sessvars>>

\* username, lines 162-164, and what its caller does next: __enter__ lines
\* 120-122, auth line 140
username_reply ==
    /\ ReadReturns
    /\ cur.stage = "username"
    /\ raw_queue' = Carry
    /\ IF Rejected(Line)
       THEN /\ Raise(cur.op, "NutClientCmdError", Line)
            /\ NoWrite(After(Line))
            /\ UNCHANGED <<wire, peer, nrecv>>
       ELSE CASE cur.op = "__enter__" -> EnterPassword(Carry, After(Line))
              [] cur.op = "auth" ->
                    Exchange(s_PASSWORD \o cur.args[2], AuthReactions, Carry,
                             Ctx("auth", "password", <<>>, <<>>, cur.args, <<>>), After(Line))
              [] OTHER ->
                    /\ Return(cur.op, <<>>, Line)
                    /\ NoWrite(After(Line))
                    /\ UNCHANGED <<wire, peer, nrecv>>
    /\ UNCHANGED <<sock, open_fds, nfds, sessvars, nops>>

\* password, lines 174-176; __enter__ and auth then return
password_reply ==
    /\ ReadDone
    /\ cur.stage = "password"
    /\ raw_queue' = Carry
    /\ IF Rejected(Line)
       THEN Raise(cur.op, "NutClientCmdError", Line)
       ELSE Return(cur.op, <<>>, Line)
    /\ UNCHANGED <<sock, open_fds, nfds, sent, wire, peer, nrecv, sessvars, nops>>

\* login(upsname), line 143
login ==
    /\ Begin
    /\ \/ NoSock("login")
       \/ /\ sess_sock
          /\ Exchange(s_LOGIN \o s_ups1, AuthReactions, raw_queue,
                      Ctx("login", "login", <<>>, <<>>, <<s_ups1>>, <<>>), Fresh)
          /\ UNCHANGED <<sock, raw_queue, open_fds, nfds>>
    /\ UNCHANGED <<spin, sessvars>>

\* login, lines 144-146
login_reply ==
    /\ ReadDone
    /\ cur.stage = "login"
    /\ raw_queue' = Carry
    /\ IF Rejected(Line)
       THEN Raise(cur.op, "NutClientCmdError", Line)
       ELSE Return(cur.op, <<>>, Line)
    /\ UNCHANGED <<sock, open_fds, nfds, sent, wire, peer, nrecv, sessvars, nops>>

\* logout(), line 149
logout ==
    /\ Begin
    /\ \/ NoSock("logout")
       \/ /\ sess_sock
          /\ Exchange(s_LOGOUT, LogoutReactions, raw_queue,
                      Ctx("logout", "logout", <<>>, <<>>, <<>>, <<>>), Fresh)
          /\ UNCHANGED <<sock, raw_queue, open_fds, nfds>>
    /\ UNCHANGED <<spin, sessvars>>

\* __exit__, lines 125-129: without a sock only line 129 runs, else logout() is
\* called first
exit ==
    /\ Begin
    /\ \/ /\ ~sess_sock
          /\ sess_sock' = FALSE
          /\ Return("__exit__", <<>>, <<>>)
          /\ NoWrite(Fresh)
          /\ UNCHANGED <<sock, raw_queue, open_fds, nfds, wire, peer, nrecv>>
       \/ /\ sess_sock
          /\ Exchange(s_LOGOUT, LogoutReactions, raw_queue,
                      Ctx("__exit__", "logout", <<>>, <<>>, <<>>, <<>>), Fresh)
          /\ UNCHANGED <<sock, raw_queue, open_fds, nfds, sess_sock>>
    /\ UNCHANGED <<spin, script, client, poller, authentication, ndomain>>

\* logout, lines 150-152; after it __exit__ closes the NutSock and drops it,
\* lines 128-129
logout_reply ==
    /\ ReadDone
    /\ cur.stage = "logout"
    /\ IF ~Farewell(Line)
       THEN /\ Raise(cur.op, "NutClientCmdError", Line)
            /\ raw_queue' = Carry
            /\ UNCHANGED <<sock, open_fds, nfds, sent, wire, peer, sess_sock>>
       ELSE IF cur.op = "__exit__"
            THEN /\ close
                 /\ sess_sock' = FALSE
                 /\ Return("__exit__", <<>>, Line)
                 /\ UNCHANGED sent
            ELSE /\ Return(cur.op, <<>>, Line)
                 /\ raw_queue' = Carry
                 /\ UNCHANGED <<sock, open_fds, nfds, sent, wire, peer, sess_sock>>
    /\ UNCHANGED <<nrecv, script, client, poller, authentication, nops, ndomain>>

\* a session as NutClient.session(authentication) makes it, lines 52-57 and
\* 111-112, in the scenario given
Start(scenario) ==
    /\ sock = 0
    /\ raw_queue = None
    /\ open_fds = {}
    /\ nfds = 0
    /\ wire = <<>>
    /\ peer = "none"
    /\ sent = <<>>
    /\ pc = "idle"
    /\ buf = <<>>
    /\ cur = NoCur
    /\ ret = NoRet
    /\ rcvd = <<>>
    /\ results = <<>>
    /\ nrecv = 0
    /\ spin = FALSE
    /\ recv_ok = TRUE
    /\ nread = 0
    /\ stale = [queue |-> <<>>, wire |-> <<>>]
    /\ log = <<>>
    /\ script = scenario
    /\ client = NoClient
    /\ poller = NoPoller
    /\ sess_sock = TRUE
    /\ authentication \in AuthInputs
    /\ nops = 0
    /\ ndomain = 0

\* the server sends nothing unasked; the caller may open the session again
Init ==
    Start([stream |-> <<>>, then |-> "open", calls |-> MaxDomain, persist |-> FALSE,
           opens |-> MaxFds])

Next ==
    \/ enter
    \/ enter_auth
    \/ auth
    \/ username
    \/ password
    \/ username_reply
    \/ password_reply
    \/ login
    \/ login_reply
    \/ logout
    \/ exit
    \/ logout_reply
    \/ recv

Spec == Init /\ [][Next]_vars

----------------------------------------------------------------------------
(* The error kinds: exceptions.py *)

\* NutClientCmdError, the error every NutSession method raises
CommandError == "NutClientCmdError"

\* NutClientConnectError
ConnectError == "NutClientConnectError"

\* the exception classes of the client
NutClientErrors == {"NutClientError", CommandError, ConnectError}

----------------------------------------------------------------------------
(* Claims about the life of a session *)

\* the bytes of a written line begin with the bytes of a word of the protocol
Wrote(i, word) == StartsWith(sent[i], Encode(word))

\* C4: when __exit__ has ended on a connected session, whether LOGOUT went well
\* or not, the socket is closed and the session has dropped its sock.
C4_ExitCloses ==
    (/\ pc = "idle"
     /\ ret.op = "__exit__"
     /\ ret.kind # "return" => (sock # 0 /\ peer # "none"))
    => (~sess_sock /\ sock \notin open_fds)

\* C5: when __enter__ fails because the USERNAME or PASSWORD reply is not
\* "OK\n", the socket it has connected is closed by the time the caller sees
\* the failure.
C5_RejectedOpenCloses ==
    (/\ pc = "idle"
     /\ ret.op = "__enter__"
     /\ ret.kind # "return"
     /\ ret.line # <<>>)
    => sock \notin open_fds

\* C6: a close that follows a close of an opened session does nothing: it
\* raises no error, writes no line, leaves the socket alone, and the session is
\* as the first close left it.
C6_SecondCloseNoOp ==
    [][(/\ pc = "idle"
        /\ ret.op = "__exit__"
        /\ ret.kind # "return" => (sock # 0 /\ peer # "none")
        /\ exit)
        => (/\ pc' = "idle"
            /\ ret'.kind = "return"
            /\ sent' = <<>>
            /\ UNCHANGED <<sock, raw_queue, open_fds, nfds, wire, peer, log, sess_sock>>)]_vars

\* C22: __exit__ of a session that was opened lets no failure of its LOGOUT
\* reach the caller: whatever the server answers, or when the write or the read
\* fails, __exit__ returns.
C22_LogoutSwallowed ==
    (pc = "idle" /\ ret.op = "__exit__" /\ sock # 0 /\ peer # "none") => ret.kind = "return"

\* the words that begin the lines of the commands that are not part of the
\* authentication
DomainWords == {s_GET, s_LIST, s_SET, s_INSTCMD, s_LOGIN}

\* the places in sent of the lines that begin with word
Written(word) == {i \in 1..Len(sent) : Wrote(i, word)}

\* the places in log of the commands whose first word is that of word
Logged(word) == {i \in 1..Len(log) : log[i].word = Word(word)}

\* C7: in a session created with credentials USERNAME and then PASSWORD are the
\* first two lines written, each is written once, and no GET, LIST, SET,
\* INSTCMD or LOGIN line is written before both were answered "OK\n".
C7_AuthOnceFirst ==
    authentication # None =>
        /\ Len(log) >= 1 => log[1].word = Word(s_USERNAME)
        /\ Len(log) >= 2 => log[2].word = Word(s_PASSWORD)
        /\ Cardinality(Logged(s_USERNAME)) <= 1
        /\ Cardinality(Logged(s_PASSWORD)) <= 1
        /\ \A word \in DomainWords : \A i \in Logged(word) :
              /\ i > 2
              /\ log[1].answer = "OK"
              /\ log[2].answer = "OK"

\* C8: when __enter__ fails on a USERNAME or PASSWORD reply that is not "OK\n",
\* the error is an error of the client of a kind other than the command error,
\* no PASSWORD follows a refused USERNAME, and no other command was written.
C8_AuthError ==
    (/\ pc = "idle"
     /\ ret.op = "__enter__"
     /\ ret.kind # "return"
     /\ ret.line # <<>>)
    => /\ ret.kind \in NutClientErrors \ {CommandError}
       /\ \A i \in Written(s_USERNAME) :
             (i <= Len(results) /\ results[i] # s_OK) => Written(s_PASSWORD) = {}
       /\ \A word \in DomainWords : Written(word) = {}

----------------------------------------------------------------------------
(* NutSession: the GET operations *)

\* NUMLOGINS
s_NUMLOGINS ==
    <<"N", "U", "M", "L", "O", "G", "I", "N", "S">>

\* UPSDESC
s_UPSDESC ==
    <<"U", "P", "S", "D", "E", "S", "C">>

\* VAR
s_VAR ==
    <<"V", "A", "R">>

\* TYPE
s_TYPE ==
    <<"T", "Y", "P", "E">>

\* DESC
s_DESC ==
    <<"D", "E", "S", "C">>

\* CMDDESC
s_CMDDESC ==
    <<"C", "M", "D", "D", "E", "S", "C">>

\* battery.charge
s_battery_charge ==
    <<"b", "a", "t", "t", "e", "r", "y", ".", "c", "h", "a", "r", "g", "e">>

\* beeper.on
s_beeper_on ==
    <<"b", "e", "e", "p", "e", "r", ".", "o", "n">>

\* ERR UNKNOWN-UPS\n
s_UNKNOWN_UPS ==
    <<"E", "R", "R", " ", "U", "N", "K", "N", "O", "W", "N", "-", "U", "P", "S", "\n">>

\* ' '.join(args)
RECURSIVE Join(_, _)
Join(args, sep) ==
    IF args = <<>> THEN <<>>
    ELSE IF Len(args) = 1 THEN args[1]
    ELSE args[1] \o sep \o Join(Tail(args), sep)

\* s.lstrip(c)
RECURSIVE LStrip(_, _)
LStrip(s, c) == IF s # <<>> /\ s[1] = c THEN LStrip(Tail(s), c) ELSE s

\* s.rstrip(c)
RECURSIVE RStrip(_, _)
RStrip(s, c) == IF s # <<>> /\ s[Len(s)] = c THEN RStrip(SubSeq(s, 1, Len(s) - 1), c) ELSE s

\* s.strip(c): every leading and every trailing c goes
Strip(s, c) == RStrip(LStrip(s, c), c)

\* s.split(c): the pieces between the occurrences of c, empty ones included
RECURSIVE Split(_, _)
Split(s, c) ==
    IF \A i \in 1..Len(s) : s[i] # c THEN <<s>>
    ELSE LET i == CHOOSE j \in 1..Len(s) : s[j] = c /\ \A k \in 1..(j - 1) : s[k] # c
         IN <<SubSeq(s, 1, i - 1)>> \o Split(Drop(s, i), c)

Digits == {"0", "1", "2", "3", "4", "5", "6", "7", "8", "9"}

\* the text int() reads after it has dropped the blanks around it and the sign
IntBody(s) ==
    LET t == Strip(s, " ")
    IN IF t # <<>> /\ t[1] \in {"+", "-"} THEN Tail(t) ELSE t

\* int(s) returns: digits, single underscores between them allowed
IsInt(s) ==
    LET b == IntBody(s)
    IN /\ b # <<>>
       /\ \A i \in 1..Len(b) : b[i] \in Digits \cup {"_"}
       /\ b[1] \in Digits /\ b[Len(b)] \in Digits
       /\ \A i \in 1..(Len(b) - 1) : ~(b[i] = "_" /\ b[i + 1] = "_")

RECURSIVE DigitsValue(_, _)
DigitsValue(b, acc) ==
    IF b = <<>> THEN acc
    ELSE IF b[1] = "_" THEN DigitsValue(Tail(b), acc)
    ELSE DigitsValue(Tail(b), 10 * acc + (Ord(b[1]) - 48))

\* int(s) where it returns
IntValue(s) ==
    LET t == Strip(s, " ")
        n == DigitsValue(IntBody(s), 0)
    IN IF t[1] = "-" THEN 0 - n ELSE n

\* nutvartypes.VarTypeEnum: the values of its members
VarTypeEnum ==
    {<<"R", "W">>, <<"E", "N", "U", "M">>, <<"S", "T", "R", "I", "N", "G">>,
     <<"N", "U", "M", "B", "E", "R">>, <<"R", "A", "N", "G", "E">>}

\* nutvartypes.BaseType(type)
BaseType(type) == [type |-> type, max_length |-> None]

\* nutvartypes.StringType(max_length)
StringType(max_length) ==
    [type |-> <<"S", "T", "R", "I", "N", "G">>, max_length |-> Some(max_length)]

\* a word with a colon becomes the base type STRING, its length is dropped
VarTypeOf_nolen(type) ==
    IF Find(type, <<":">>) # -1 \/ type \in VarTypeEnum
    THEN [kind |-> "return", value |-> BaseType(<<"S", "T", "R", "I", "N", "G">>)]
    ELSE [kind |-> "ValueError", value |-> <<>>]

\* var_type, lines 260-264: what one word of the reply becomes; int() and
\* VarTypeEnum() raise ValueError
VarTypeOf(type) ==
    LET pos == Find(type, <<":">>)
    IN IF pos # -1
       THEN IF IsInt(Drop(type, pos + 1))
            THEN [kind |-> "return", value |-> StringType(IntValue(Drop(type, pos + 1)))]
            ELSE [kind |-> "ValueError", value |-> <<>>]
       ELSE IF type \in VarTypeEnum
            THEN [kind |-> "return", value |-> BaseType(type)]
            ELSE [kind |-> "ValueError", value |-> <<>>]

\* var_type, lines 257-267: the loop over the words; only IndexError is caught,
\* so the first ValueError leaves the method
VarTypes(value) ==
    LET words == Split(value, " ")
        each == [i \in 1..Len(words) |-> VarTypeOf(words[i])]
    IN IF \E i \in 1..Len(words) : each[i].kind # "return"
       THEN [kind |-> "ValueError", value |-> <<>>]
       ELSE [kind |-> "return", value |-> [i \in 1..Len(words) |-> each[i].value]]

\* the methods that call __exec_get
GetOps == {"num_logins", "ups_desc", "var_value", "var_type", "var_desc", "cmd_desc"}

\* what each method does with the text __exec_get has returned: lines 210-213,
\* 226, 242, 257-267, 281, 297
PostGet(op, value) ==
    CASE op = "num_logins" ->
            IF IsInt(value)
            THEN [kind |-> "return", value |-> IntValue(value)]
            ELSE [kind |-> "NutClientCmdError", value |-> <<>>]
      [] op = "var_type" -> VarTypes(value)
      [] OTHER -> [kind |-> "return", value |-> Strip(value, "\"")]

\* __exec_get, line 190: the sub-command
SubCmd(command, args) == command \o <<" ">> \o Join(args, <<" ">>)

\* __exec_get, line 194: what the reply has to begin with
ExpectedStart(sub_cmd) == sub_cmd \o <<" ">>

\* the answers of the server to GET <sub_cmd>: the echo and one of the values,
\* the echo alone, an error line, some other line, no answer, or the connection
\* is closed
GetReactions(sub_cmd, values) ==
    {Reaction(sub_cmd \o <<" ">> \o v \o NL, "open") : v \in values}
    \cup {Reaction(sub_cmd \o NL, "open"), Reaction(s_UNKNOWN_UPS, "open"),
          Reaction(s_OK, "open"), Reaction(<<>>, "open"), Reaction(<<>>, "eof")}

\* __exec_get, lines 190-193
ExecGet(op, command, args, values) ==
    /\ Domain
    /\ \/ NoSock(op)
       \/ /\ sess_sock
          /\ LET sub_cmd == SubCmd(command, args)
                 full_cmd == s_GET \o sub_cmd
             IN Exchange(full_cmd, GetReactions(sub_cmd, values), raw_queue,
                         Ctx(op, "get", sub_cmd, full_cmd, args, <<>>), Fresh)
          /\ UNCHANGED <<sock, raw_queue, open_fds, nfds>>
    /\ UNCHANGED <<spin, script, client, poller, sess_sock, authentication>>

\* raw_response[len(expected_start):], the terminator kept
ExecGetValue_keep(raw_response, expected_start) == Drop(raw_response, Len(expected_start))

\* __exec_get, line 197: raw_response[len(expected_start):-1]
ExecGetValue(raw_response, expected_start) ==
    SubSeq(raw_response, Len(expected_start) + 1, Len(raw_response) - 1)

\* num_logins(upsname), line 211
num_logins ==
    ExecGet("num_logins", s_NUMLOGINS, <<s_ups1>>, {<<"1">>, <<"x">>, <<>>})

\* ups_desc(upsname), line 226
ups_desc ==
    ExecGet("ups_desc", s_UPSDESC, <<s_ups1>>, {<<"\"", "A", " ", "b", "\"">>})

\* var_value(upsname, var), line 242
var_value ==
    ExecGet("var_value", s_VAR, <<s_ups1, s_battery_charge>>,
            {<<"\"", "1", "0", "0", "\"">>, <<"1", "0", "0">>, <<"\"", "\"">>, <<>>,
             <<"\"", "\"", "a", "\"", "\"">>})

\* var_type(upsname, var), line 259
var_type ==
    ExecGet("var_type", s_TYPE, <<s_ups1, s_battery_charge>>,
            {<<"R", "W", " ", "S", "T", "R", "I", "N", "G", ":", "2", "0">>,
             <<"N", "U", "M", "B", "E", "R">>,
             <<"R", "W", " ", "F", "O", "O">>,
             <<"S", "T", "R", "I", "N", "G", ":", "x">>,
             <<"X", ":", "3">>,
             <<"R", "W", " ", " ", "E", "N", "U", "M">>,
             <<"S", "T", "R", "I", "N", "G", ":", "-", "3">>})

\* var_desc(upsname, var), line 281
var_desc ==
    ExecGet("var_desc", s_DESC, <<s_ups1, s_battery_charge>>, {<<"\"", "A", " ", "b", "\"">>})

\* cmd_desc(upsname, cmd), line 297
cmd_desc ==
    ExecGet("cmd_desc", s_CMDDESC, <<s_ups1, s_beeper_on>>, {<<"\"", "A", " ", "b", "\"">>})

\* __exec_get, lines 194-197, and then what the method makes of the text
get_reply ==
    /\ ReadDone
    /\ cur.stage = "get"
    /\ raw_queue' = Carry
    /\ IF ~StartsWith(Line, ExpectedStart(cur.sub_cmd))
       THEN Raise(cur.op, "NutClientCmdError", Line)
       ELSE LET value == ExecGetValue(Line, ExpectedStart(cur.sub_cmd))
                out == PostGet(cur.op, value)
            IN /\ pc' = "idle"
               /\ buf' = <<>>
               /\ cur' = NoCur
               /\ ret' = [op |-> cur.op, kind |-> out.kind, value |-> out.value,
                          line |-> Line, raw |-> Some(value)]
    /\ UNCHANGED <<sock, open_fds, nfds, sent, wire, peer, nrecv, sessvars, nops>>

\* a session without credentials, whose caller opens it once and calls the
\* GET methods as long as none fails
InitGet ==
    /\ Start([stream |-> <<>>, then |-> "open", calls |-> MaxDomain, persist |-> FALSE,
              opens |-> 1])
    /\ authentication = None

NextGet ==
    \/ enter
    \/ enter_auth
    \/ num_logins
    \/ ups_desc
    \/ var_value
    \/ var_type
    \/ var_desc
    \/ cmd_desc
    \/ get_reply
    \/ recv

SpecGet == InitGet /\ [][NextGet]_vars

----------------------------------------------------------------------------
(* Claims about the GET operations *)

\* the line each GET method has to write for the arguments it is called with
GetLine(op) ==
    CASE op = "num_logins" -> <<"G", "E", "T", " ", "N", "U", "M", "L", "O", "G", "I", "N", "S", " ", "u", "p", "s", "1", "\n">>
      [] op = "ups_desc" -> <<"G", "E", "T", " ", "U", "P", "S", "D", "E", "S", "C", " ", "u", "p", "s", "1", "\n">>
      [] op = "var_value" -> <<"G", "E", "T", " ", "V", "A", "R", " ", "u", "p", "s", "1", " ", "b", "a", "t", "t", "e", "r", "y", ".", "c", "h", "a", "r", "g", "e", "\n">>
      [] op = "var_type" -> <<"G", "E", "T", " ", "T", "Y", "P", "E", " ", "u", "p", "s", "1", " ", "b", "a", "t", "t", "e", "r", "y", ".", "c", "h", "a", "r", "g", "e", "\n">>
      [] op = "var_desc" -> <<"G", "E", "T", " ", "D", "E", "S", "C", " ", "u", "p", "s", "1", " ", "b", "a", "t", "t", "e", "r", "y", ".", "c", "h", "a", "r", "g", "e", "\n">>
      [] op = "cmd_desc" -> <<"G", "E", "T", " ", "C", "M", "D", "D", "E", "S", "C", " ", "u", "p", "s", "1", " ", "b", "e", "e", "p", "e", "r", ".", "o", "n", "\n">>

\* the line written last
LastWritten == Decode(sent[Len(sent)])

\* the echo a reply to the line written last has to begin with: the line
\* without its first word and with a blank in the place of the terminator
EchoPrefix == SubSeq(LastWritten, 5, Len(LastWritten) - 1) \o <<" ">>

\* a GET method has ended after it has read a reply
GetEnded == pc = "idle" /\ ret.op \in GetOps /\ nread >= 1

\* C9: a GET method writes "GET <SUB> <args>" and reads one line; if the line
\* begins with "<SUB> <args> " then __exec_get returns the characters between
\* that prefix and the terminator, and nothing else; if not, it returns nothing
\* and the method raises an error.
C9_GetEcho ==
    GetEnded =>
        /\ LastWritten = GetLine(ret.op)
        /\ nread = 1
        /\ ret.line = results[Len(results)]
        /\ IF StartsWith(ret.line, EchoPrefix)
           THEN /\ ret.raw # None
                /\ ret.line = EchoPrefix \o ret.raw[1] \o NL
           ELSE /\ ret.raw = None
                /\ ret.kind \notin {"none", "return"}

\* var_value has read VAR ups1 battery.charge "100" in more than one piece and
\* returns 100
C9_Witness ==
    /\ GetEnded
    /\ nrecv = 2
    /\ ret.op = "var_value"
    /\ ret.kind = "return"
    /\ ret.raw = Some(<<"\"", "1", "0", "0", "\"">>)
    /\ ret.value = <<"1", "0", "0">>

\* C10: a GET reply that begins with "ERR " raises the command error, a reply
\* that begins with neither "ERR " nor the echo raises an error of another
\* kind, so that the kind tells the two apart.
C10_ErrKinds ==
    (GetEnded /\ ~StartsWith(ret.line, EchoPrefix)) =>
        IF StartsWith(ret.line, s_ERR)
        THEN ret.kind = CommandError
        ELSE ret.kind \in NutClientErrors \ {CommandError}

\* the methods that return the text of a GET reply
TextOps == {"ups_desc", "var_value", "var_desc", "cmd_desc"}

\* a text without the one pair of double quotes around it, if it has one
Unquoted(v) ==
    IF Len(v) >= 2 /\ v[1] = "\"" /\ v[Len(v)] = "\"" THEN SubSeq(v, 2, Len(v) - 1) ELSE v

\* C30: ups_desc, var_value, var_desc and cmd_desc return the text __exec_get
\* has handed them without the one pair of double quotes around it, and
\* unchanged if it is not inside such a pair.
C30_OnePair ==
    (pc = "idle" /\ ret.op \in TextOps /\ ret.kind = "return") =>
        ret.value = Unquoted(ret.raw[1])

\* C23: an operation of a session that fails, __enter__ or a GET method here,
\* fails with one of the exception classes of the client.
C23_TypedErrors ==
    (pc = "idle" /\ ret.kind \notin {"none", "return"}) => ret.kind \in NutClientErrors

\* the exception Flask makes of an exception of a route that is no HTTPException
\* and has no handler of its own: code 500 and a fixed description, which says
\* nothing of the exception it stands for
InternalServerError ==
    [code |-> 500, description |-> <<"I", "n", "t", "e", "r", "n", "a", "l">>]

\* handle_exception, the one error handler of main.py, registered for
\* HTTPException: the status and the description of the response are those
\* of the HTTP exception
handle_exception(e) == [code |-> e.code, description |-> e.description]

\* the response of a route of main.py to the outcome r of the session operation
\* it has called inside its with block: the routes catch nothing, so a result
\* is answered with 200 and its value, and an exception with handle_exception
\* of the InternalServerError
RouteResponse(r) ==
    IF r.kind = "return" THEN [code |-> 200, description |-> r.value]
    ELSE handle_exception(InternalServerError)

\* C27: the response of the API to a failed operation of a session is a 4xx
\* with the error line of the server in it for a NutClientCmdError of a GET
\* method, 401 for a refused login in __enter__, and a 5xx for any other
\* error.
C27_ErrorMapping ==
    (pc = "idle" /\ ret.kind \notin {"none", "return"}) =>
        LET resp == RouteResponse(ret)
        IN  IF ret.kind = CommandError /\ ret.op # "__enter__"
            THEN /\ resp.code \in 400..499
                 /\ Contains(resp.description, RStrip(ret.line, "\n"))
            ELSE IF ret.kind = CommandError
            THEN resp.code = 401
            ELSE resp.code \in 500..599

----------------------------------------------------------------------------
(* NutSession: the LIST operations *)

\* v
s_v ==
    <<"v">>

\* UPS
s_UPS ==
    <<"U", "P", "S">>

\* RW
s_RW ==
    <<"R", "W">>

\* ENUM
s_ENUM ==
    <<"E", "N", "U", "M">>

\* RANGE
s_RANGE ==
    <<"R", "A", "N", "G", "E">>

\* CMD
s_CMD ==
    <<"C", "M", "D">>

\* CLIENT
s_CLIENT ==
    <<"C", "L", "I", "E", "N", "T">>

\* BEGIN LIST 
s_BEGIN_LIST ==
    <<"B", "E", "G", "I", "N", " ", "L", "I", "S", "T", " ">>

\* END LIST 
s_END_LIST ==
    <<"E", "N", "D", " ", "L", "I", "S", "T", " ">>

\* the methods that call ___exec_list
ListOps ==
    {"list_ups", "list_vars", "list_rw_vars", "list_cmds", "list_enum", "list_range",
     "list_clients"}

\* the methods that collect into a dict; the others collect into a list
DictOps == {"list_ups", "list_vars", "list_rw_vars"}

\* line.split(" ", 1): one piece without a blank in line, else the text before
\* the first blank and the text after it
Split1(line) ==
    IF Find(line, <<" ">>) = -1 THEN <<line>>
    ELSE <<Take(line, Find(line, <<" ">>)), Drop(line, Find(line, <<" ">>) + 1)>>

\* a dict that keeps the value a key has
DictUpdate_first(d, key, value) ==
    IF \E i \in 1..Len(d) : d[i][1] = key THEN d ELSE Append(d, <<key, value>>)

\* dict.update({key: value}): the value of a key that is there is replaced, a
\* new key goes to the end
DictUpdate(d, key, value) ==
    IF \E i \in 1..Len(d) : d[i][1] = key
    THEN [i \in 1..Len(d) |-> IF d[i][1] = key THEN <<key, value>> ELSE d[i]]
    ELSE Append(d, <<key, value>>)

\* the accept function of each method, applied to one line of the list: lines
\* 351-353, 370-372, 389-391, 408-409, 427-429, 446-448, 462-463.  Unpacking
\* the one piece of a line without a blank raises ValueError.
Accept(op, line, acc) ==
    CASE op \in DictOps ->
            IF Len(Split1(line)) = 1
            THEN [kind |-> "ValueError", acc |-> acc]
            ELSE [kind |-> "ok",
                  acc |-> DictUpdate(acc, Split1(line)[1],
                                     Strip(Strip(Split1(line)[2], "\""), " "))]
      [] op = "list_enum" ->
            IF Len(Split1(line)) = 1
            THEN [kind |-> "ValueError", acc |-> acc]
            ELSE [kind |-> "ok", acc |-> Append(acc, Split1(line)[2])]
      [] op = "list_range" ->
            IF Len(Split1(line)) = 1
            THEN [kind |-> "ValueError", acc |-> acc]
            ELSE [kind |-> "ok",
                  acc |-> Append(acc, [min |-> Split1(line)[1], max |-> Split1(line)[2]])]
      [] OTHER -> [kind |-> "ok", acc |-> Append(acc, line)]

\* what the method returns when ___exec_list has returned: the collection, and
\* for list_enum, line 431, what ___exec_list returns, which is None
ListResult(op, acc) == IF op = "list_enum" THEN None ELSE Some(acc)

\* ___exec_list, line 327: the sub-command
ListSubCmd(command, args) == Strip(command \o <<" ">> \o Join(args, <<" ">>), " ")

\* the answers of the server to LIST <sub_cmd>: the list with two items, the
\* empty list, the list with one item and a byte after its last line, the
\* list cut after its first item with the connection closed, a list whose
\* only item is the line bad, the list of another sub-command whose name
\* begins with sub_cmd (its BEGIN line differs, or only its item line does),
\* a list whose item is the bare echo, an error line, no answer, or the
\* connection is closed without an answer
ListReactions(sub_cmd, items, bad) ==
    LET begin == s_BEGIN_LIST \o sub_cmd \o NL
        end == s_END_LIST \o sub_cmd \o NL
        row(i) == sub_cmd \o <<" ">> \o items[i] \o NL
        other == sub_cmd \o <<"0">>
    IN {Reaction(begin \o row(1) \o row(2) \o end, "open"),
        Reaction(begin \o end, "open"),
        Reaction(begin \o row(1) \o end \o <<"x">>, "open"),
        Reaction(begin \o row(1), "eof"),
        Reaction(begin \o bad \o end, "open"),
        Reaction(s_BEGIN_LIST \o other \o NL \o end, "open"),
        Reaction(begin \o other \o <<" ">> \o items[1] \o NL \o end, "open"),
        Reaction(begin \o sub_cmd \o NL \o end, "open"),
        Reaction(s_UNKNOWN_UPS, "open"),
        Reaction(<<>>, "open"),
        Reaction(<<>>, "eof")}

\* "BEGIN LIST" where an exact BEGIN line is asked for
ListHead_prefix(head_response, sub_cmd) == StartsWith(head_response, s_BEGIN_LIST)

\* ___exec_list, line 331: the first line is the BEGIN line of the list
ListHead(head_response, sub_cmd) == head_response = s_BEGIN_LIST \o sub_cmd \o NL

\* ___exec_list, line 336: the line is the END line of the list
ListEnd(response, sub_cmd) == response = s_END_LIST \o sub_cmd \o NL

\* ___exec_list, line 338: the line passes as an item of the list
ListItemOk(response, sub_cmd) == StartsWith(response, sub_cmd)

\* ___exec_list, line 340: response[len(sub_cmd) + 1:-1], what the consumer gets
ListItem(response, sub_cmd) == SubSeq(response, Len(sub_cmd) + 2, Len(response) - 1)

\* ___exec_list, lines 327-330
ExecList(op, command, args, items, bad) ==
    /\ Domain
    /\ \/ NoSock(op)
       \/ /\ sess_sock
          /\ LET sub_cmd == ListSubCmd(command, args)
                 full_cmd == s_LIST \o sub_cmd
             IN Exchange(full_cmd, ListReactions(sub_cmd, items, bad), raw_queue,
                         Ctx(op, "head", sub_cmd, full_cmd, args, <<>>), Fresh)
          /\ UNCHANGED <<sock, raw_queue, open_fds, nfds>>
    /\ UNCHANGED <<spin, script, client, poller, sess_sock, authentication>>

\* list_ups(), line 355
list_ups ==
    ExecList("list_ups", s_UPS, <<>>,
             <<<<"u", "p", "s", "1", " ", "\"", "A", " ", "b", "\"">>,
               <<"u", "p", "s", "2", " ", "\"", "C", " ", "\"">>>>,
             <<"U", "P", "S", " ", "u", "p", "s", "1", "\n">>)

\* list_vars(upsname), line 374
list_vars ==
    ExecList("list_vars", s_VAR, <<s_ups1>>,
             <<<<"v", " ", "\"", "1", "\"">>,
               <<"w", " ", "\"", "2", " ", "3", "\"">>>>,
             <<"V", "A", "R", " ", "u", "p", "s", "2", " ", "v", " ", "\"", "1", "\"", "\n">>)

\* list_rw_vars(upsname), line 393
list_rw_vars ==
    ExecList("list_rw_vars", s_RW, <<s_ups1>>,
             <<<<"v", " ", "\"", "1", "\"">>,
               <<"w", " ", "\"", "2", " ", "3", "\"">>>>,
             <<"V", "A", "R", " ", "u", "p", "s", "1", " ", "v", " ", "\"", "1", "\"", "\n">>)

\* list_cmds(upsname), line 411
list_cmds ==
    ExecList("list_cmds", s_CMD, <<s_ups1>>,
             <<<<"c">>,
               <<"d">>>>,
             <<"C", "M", "D", " ", "u", "p", "s", "2", " ", "c", "\n">>)

\* list_enum(upsname, var), line 431
list_enum ==
    ExecList("list_enum", s_ENUM, <<s_ups1, s_v>>,
             <<<<"\"", "a", " ", "b", "\"">>,
               <<"\"", "c", " ", "d", "\"">>>>,
             <<"E", "N", "U", "M", " ", "u", "p", "s", "1", " ", "v", " ", "\"", "1", "\"", "\n">>)

\* list_range(upsname, var), line 450
list_range ==
    ExecList("list_range", s_RANGE, <<s_ups1, s_v>>,
             <<<<"\"", "1", "\"", " ", "\"", "9", "\"">>,
               <<"\"", "2", "0", "\"", " ", "\"", "3", "0", "\"">>>>,
             <<"R", "A", "N", "G", "E", " ", "u", "p", "s", "1", " ", "v", " ", "\"", "1", "\"", "\n">>)

\* list_clients(upsname), line 465
list_clients ==
    ExecList("list_clients", s_CLIENT, <<s_ups1>>,
             <<<<"h", "1">>,
               <<"h", "2">>>>,
             <<"C", "L", "I", "E", "N", "T", " ", "u", "p", "s", "2", " ", "h", "1", "\n">>)

\* ___exec_list, lines 331-335: the head of the list, and the first read of the
\* loop
list_head ==
    /\ ReadDone
    /\ cur.stage = "head"
    /\ raw_queue' = Carry
    /\ IF ~ListHead(Line, cur.sub_cmd)
       THEN Raise(cur.op, "NutClientCmdError", Line) /\ UNCHANGED nrecv
       ELSE read_line(Carry, Ctx(cur.op, "item", cur.sub_cmd, cur.full_cmd, cur.args, <<>>))
            /\ UNCHANGED ret
    /\ UNCHANGED <<sock, open_fds, nfds, sent, wire, peer, sessvars, nops>>

\* ___exec_list, lines 336-340 and 335: one line of the list and the next read;
\* after END LIST the method returns what it has collected
list_item ==
    /\ ReadDone
    /\ cur.stage = "item"
    /\ raw_queue' = Carry
    /\ IF ListEnd(Line, cur.sub_cmd)
       THEN /\ pc' = "idle"
            /\ buf' = <<>>
            /\ cur' = NoCur
            /\ ret' = [op |-> cur.op, kind |-> "return",
                       value |-> ListResult(cur.op, cur.acc), line |-> Line,
                       raw |-> Some(cur.acc)]
            /\ UNCHANGED nrecv
       ELSE IF ~ListItemOk(Line, cur.sub_cmd)
       THEN Raise(cur.op, "NutClientCmdError", Line) /\ UNCHANGED nrecv
       ELSE LET out == Accept(cur.op, ListItem(Line, cur.sub_cmd), cur.acc)
            IN IF out.kind # "ok"
               THEN Raise(cur.op, out.kind, Line) /\ UNCHANGED nrecv
               ELSE read_line(Carry, Ctx(cur.op, "item", cur.sub_cmd, cur.full_cmd,
                                         cur.args, out.acc))
                    /\ UNCHANGED ret
    /\ UNCHANGED <<sock, open_fds, nfds, sent, wire, peer, sessvars, nops>>

NextList ==
    \/ enter
    \/ enter_auth
    \/ list_ups
    \/ list_vars
    \/ list_rw_vars
    \/ list_cmds
    \/ list_enum
    \/ list_range
    \/ list_clients
    \/ list_head
    \/ list_item
    \/ recv

\* a session without credentials, whose caller opens it once and calls the
\* LIST methods as long as none fails
SpecList == InitGet /\ [][NextList]_vars

----------------------------------------------------------------------------
(* Claims about the LIST operations *)

\* a list method has read BEGIN LIST, has not read END LIST, nothing it has
\* received is left to read, and the server has closed the connection: the
\* recv of the next step returns no bytes
DroppedMidList ==
    /\ pc = "read"
    /\ cur.op \in ListOps
    /\ cur.stage = "item"
    /\ ~Contains(buf, NL)
    /\ wire = <<>>
    /\ peer = "eof"

\* C2: when recv returns no bytes after BEGIN LIST was read and before END LIST
\* has arrived, the list method ends with an error of the client that is not
\* the command error, and what it has collected is not returned.
C2_DropMidList ==
    [][DroppedMidList =>
          (/\ pc' = "idle"
           /\ ret'.op \in ListOps
           /\ ret'.kind \in NutClientErrors \ {CommandError})]_vars

\* the sub-command of the LIST line written last: the line without its first
\* word and without its terminator
ListEcho == SubSeq(LastWritten, 6, Len(LastWritten) - 1)

\* a list method has returned to its caller
ListReturned == pc = "idle" /\ ret.op \in ListOps /\ ret.kind = "return"

\* what the consumer of op makes of the lines of a list, one after the other,
\* each without the echo and the blank before its text and without its terminator
RECURSIVE BuiltFrom(_, _, _, _)
BuiltFrom(op, sub, lines, acc) ==
    IF lines = <<>> THEN acc
    ELSE BuiltFrom(op, sub, Tail(lines),
                   Accept(op, SubSeq(lines[1], Len(sub) + 2, Len(lines[1]) - 1), acc).acc)

\* C11: a list method returns only when the first line it has read is exactly
\* "BEGIN LIST <SUB> <args>" and the last is exactly "END LIST <SUB> <args>";
\* what it has collected is built from the lines between the two and from no
\* other, it has read no line after the END line, and the bytes received after
\* that line are in raw_queue.
C11_ListFraming ==
    ListReturned =>
        LET n == Len(results)
        IN /\ n >= 2
           /\ nread = n
           /\ results[1] = s_BEGIN_LIST \o ListEcho \o NL
           /\ results[n] = s_END_LIST \o ListEcho \o NL
           /\ \A i \in 2..(n - 1) : results[i] # s_END_LIST \o ListEcho \o NL
           /\ ret.raw = Some(BuiltFrom(ret.op, ListEcho, SubSeq(results, 2, n - 1), <<>>))
           /\ stale.queue \o Decode(rcvd) = Concat(results) \o OrEmpty(raw_queue)

\* list_vars has read a list of one item whose END line came in more than one
\* piece, and the byte the server has sent after it is in raw_queue
C11_Witness ==
    /\ ListReturned
    /\ ret.op = "list_vars"
    /\ nrecv = 2
    /\ Len(results) = 3
    /\ ret.raw = Some(<<<<(<<"v">>), (<<"1">>)>>>>)
    /\ raw_queue = Some(<<"x">>)

\* a list method has ended after it has read the BEGIN line and a further line
ListEnded == pc = "idle" /\ ret.op \in ListOps /\ nread >= 2

\* C12: a line of a list that is not the END line and does not begin with
\* "<SUB> <args> " is the last line the method reads: the method fails on it with
\* an error of the client that is not the command error, and nothing of the
\* line gets into the result.
C12_ItemPrefix ==
    ListEnded =>
        \A i \in 2..Len(results) :
            (/\ results[i] # s_END_LIST \o ListEcho \o NL
             /\ ~StartsWith(results[i], ListEcho \o <<" ">>))
            => /\ i = Len(results)
               /\ ret.kind \in NutClientErrors \ {CommandError}

\* the lines of the list a method has read, between BEGIN and END, each without
\* the echo and the blank before its text and without its terminator
ItemTexts ==
    [i \in 1..(Len(results) - 2) |->
        SubSeq(results[i + 1], Len(ListEcho) + 2, Len(results[i + 1]) - 1)]

\* the text is a name, a blank, and a text in double quotes
IsQuotedItem(text) ==
    /\ Len(Split1(text)) = 2
    /\ Len(Split1(text)[2]) >= 2
    /\ Split1(text)[2][1] = "\""
    /\ Split1(text)[2][Len(Split1(text)[2])] = "\""

\* the name of such a text, and what stands between its quotes
NameOf(text) == Split1(text)[1]
QuotedOf(text) == SubSeq(Split1(text)[2], 2, Len(Split1(text)[2]) - 1)

\* C13: for a well-framed list whose lines are <SUB> <args> <name> "<text>",
\* list_ups, list_vars and list_rw_vars return the mapping with one entry for
\* every name sent, which maps the name to the text between the quotes of the
\* last line that has the name.
C13_DictResult ==
    (/\ ListReturned
     /\ ret.op \in DictOps
     /\ \A i \in 1..Len(ItemTexts) :
           /\ StartsWith(results[i + 1], ListEcho \o <<" ">>)
           /\ IsQuotedItem(ItemTexts[i]))
    => /\ ret.value # None
       /\ {ret.value[1][k][1] : k \in 1..Len(ret.value[1])}
             = {NameOf(ItemTexts[i]) : i \in 1..Len(ItemTexts)}
       /\ Len(ret.value[1])
             = Cardinality({NameOf(ItemTexts[i]) : i \in 1..Len(ItemTexts)})
       /\ \A k \in 1..Len(ret.value[1]) :
             \E i \in 1..Len(ItemTexts) :
                /\ NameOf(ItemTexts[i]) = ret.value[1][k][1]
                /\ QuotedOf(ItemTexts[i]) = ret.value[1][k][2]
                /\ \A j \in (i + 1)..Len(ItemTexts) :
                      NameOf(ItemTexts[j]) # NameOf(ItemTexts[i])

\* the methods that return a list
SeqOps == ListOps \ DictOps

\* C14: for a well-framed list, list_cmds, list_enum, list_range and
\* list_clients return a sequence with one element for every line between BEGIN
\* and END, in the order of the lines, and the empty sequence when there is no
\* such line; an element of list_cmds and list_clients is the text of its line,
\* an element of list_range holds the two texts of its line.
C14_SeqResult ==
    (/\ ListReturned
     /\ ret.op \in SeqOps
     /\ \A i \in 1..Len(ItemTexts) : StartsWith(results[i + 1], ListEcho \o <<" ">>))
    => /\ ret.value # None
       /\ Len(ret.value[1]) = Len(ItemTexts)
       /\ ret.op \in {"list_cmds", "list_clients"} => ret.value[1] = ItemTexts
       /\ ret.op = "list_range" =>
             \A i \in 1..Len(ItemTexts) :
                ItemTexts[i] = ret.value[1][i].min \o <<" ">> \o ret.value[1][i].max

----------------------------------------------------------------------------
(* NutSession: lists that name a key more than once *)

\* the answers of the server to LIST <sub_cmd> for the three item texts: the
\* list of the three, the list of the first and the third, of the third and the
\* first, of the second alone, the empty list, or no answer
DupReactions(sub_cmd, items) ==
    LET begin == s_BEGIN_LIST \o sub_cmd \o NL
        end == s_END_LIST \o sub_cmd \o NL
        row(i) == sub_cmd \o <<" ">> \o items[i] \o NL
    IN {Reaction(begin \o row(1) \o row(2) \o row(3) \o end, "open"),
        Reaction(begin \o row(1) \o row(3) \o end, "open"),
        Reaction(begin \o row(3) \o row(1) \o end, "open"),
        Reaction(begin \o row(2) \o end, "open"),
        Reaction(begin \o end, "open"),
        Reaction(<<>>, "open")}

\* the item texts of such a list: the first and the third have the same key
DupItems ==
    <<<<"v", " ", "\"", "1", "\"">>,
      <<"w", " ", "\"", "2", "\"">>,
      <<"v", " ", "\"", "3", "\"">>>>

\* ___exec_list, lines 327-330, for a server that answers with such a list
ExecListDup(op, command, args) ==
    /\ Domain
    /\ \/ NoSock(op)
       \/ /\ sess_sock
          /\ LET sub_cmd == ListSubCmd(command, args)
                 full_cmd == s_LIST \o sub_cmd
             IN Exchange(full_cmd, DupReactions(sub_cmd, DupItems), raw_queue,
                         Ctx(op, "head", sub_cmd, full_cmd, args, <<>>), Fresh)
          /\ UNCHANGED <<sock, raw_queue, open_fds, nfds>>
    /\ UNCHANGED <<spin, script, client, poller, sess_sock, authentication>>

\* list_ups(), line 355, list_vars(upsname), line 374, and
\* list_rw_vars(upsname), line 393
list_dict ==
    \/ ExecListDup("list_ups", s_UPS, <<>>)
    \/ ExecListDup("list_vars", s_VAR, <<s_ups1>>)
    \/ ExecListDup("list_rw_vars", s_RW, <<s_ups1>>)

NextDup ==
    \/ enter
    \/ enter_auth
    \/ list_dict
    \/ list_head
    \/ list_item
    \/ recv

\* a session without credentials, whose caller opens it once and calls the
\* methods that return a dict
SpecDup == InitGet /\ [][NextDup]_vars

\* the value the consumer of op makes of one item text alone
ValueOf(op, text) == Accept(op, text, <<>>).acc[1][2]

\* C31: the dict list_ups, list_vars and list_rw_vars return has one entry for
\* every key that an item line of the list has and no other entry, no key
\* twice, and the value of a key is the value of the last item line that has
\* the key.
C31_LastWins ==
    (ListReturned /\ ret.op \in DictOps) =>
        LET d == ret.value[1]
        IN /\ \A i, j \in 1..Len(d) : d[i][1] = d[j][1] => i = j
           /\ {d[k][1] : k \in 1..Len(d)} = {NameOf(ItemTexts[i]) : i \in 1..Len(ItemTexts)}
           /\ \A k \in 1..Len(d) :
                 \E i \in 1..Len(ItemTexts) :
                    /\ NameOf(ItemTexts[i]) = d[k][1]
                    /\ ValueOf(ret.op, ItemTexts[i]) = d[k][2]
                    /\ \A j \in (i + 1)..Len(ItemTexts) :
                          NameOf(ItemTexts[j]) # NameOf(ItemTexts[i])

\* list_vars has read three item lines, the first and the third for the key v,
\* and returns v with the value of the third, and w
C31_Witness ==
    /\ ListReturned
    /\ ret.op = "list_vars"
    /\ Len(results) = 5
    /\ ret.value = Some(<<<<(<<"v">>), (<<"3">>)>>, <<(<<"w">>), (<<"2">>)>>>>)

----------------------------------------------------------------------------
(* NutSession: SET, INSTCMD and GET TRACKING *)

\* TRACKING
s_TRACKING ==
    <<"T", "R", "A", "C", "K", "I", "N", "G">>

\* OK TRACKING 
s_OK_TRACKING ==
    <<"O", "K", " ", "T", "R", "A", "C", "K", "I", "N", "G", " ">>

\* ERR READONLY\n
s_READONLY ==
    <<"E", "R", "R", " ", "R", "E", "A", "D", "O", "N", "L", "Y", "\n">>

\* T-1
s_T1 ==
    <<"T", "-", "1">>

\* ups.delay.shutdown
s_delay ==
    <<"u", "p", "s", ".", "d", "e", "l", "a", "y", ".", "s", "h", "u", "t", "d", "o", "w", "n">>

\* SUCCESS\n
s_SUCCESS ==
    <<"S", "U", "C", "C", "E", "S", "S", "\n">>

\* the methods that write a SET or an INSTCMD line
SetOps == {"set_var", "tracking_on", "tracking_off", "run_cmd"}

\* the answers of the server to SET and INSTCMD: done, done with a tracking
\* id, refused, a line that is none of these, no answer, or the connection is
\* closed
SetReactions ==
    {Reaction(s_OK, "open"), Reaction(s_OK_TRACKING \o s_T1 \o NL, "open"),
     Reaction(s_READONLY, "open"), Reaction(<<"O", "K", " ", "T", "R", "A", "C", "K", "I", "N", "G", "\n">>, "open"),
     Reaction(<<>>, "open"), Reaction(<<>>, "eof")}

\* raw_response[len("OK TRACKING "):], the terminator kept
TrackingId_keep(raw_response) == Drop(raw_response, Len(s_OK_TRACKING))

\* __exec_set, line 487, and run_cmd, line 539:
\* raw_response[len("OK TRACKING "):-1]
TrackingId(raw_response) ==
    SubSeq(raw_response, Len(s_OK_TRACKING) + 1, Len(raw_response) - 1)

\* __exec_set, lines 483-491, and run_cmd, lines 535-543: what the method makes
\* of the line it has read
SetOutcome(raw_response) ==
    IF StartsWith(raw_response, s_ERR)
    THEN [kind |-> "NutClientCmdError", value |-> None]
    ELSE IF StartsWith(raw_response, s_OK_TRACKING)
    THEN [kind |-> "return", value |-> Some(TrackingId(raw_response))]
    ELSE IF raw_response = s_OK
    THEN [kind |-> "return", value |-> None]
    ELSE [kind |-> "NutClientCmdError", value |-> None]

\* __exec_set, lines 481-482, and run_cmd, lines 533-534
ExecSet(op, full_cmd) ==
    /\ Domain
    /\ \/ NoSock(op)
       \/ /\ sess_sock
          /\ Exchange(full_cmd, SetReactions, raw_queue,
                      Ctx(op, "set", <<>>, full_cmd, <<>>, <<>>), Fresh)
          /\ UNCHANGED <<sock, raw_queue, open_fds, nfds>>
    /\ UNCHANGED <<spin, script, client, poller, sess_sock, authentication>>

\* set_var, line 505, and __exec_set, line 480: the command for the arguments;
\* the value is put between two double quotes as it is
SetVarCmd(upsname, var, value) ==
    s_SET \o s_VAR \o <<" ">> \o Join(<<upsname, var, <<"\"">> \o value \o <<"\"">>>>, <<" ">>)

\* set_var(upsname, var, value)
set_var ==
    ExecSet("set_var", SetVarCmd(s_ups1, s_delay, <<"3", "0">>))

\* the values a caller hands to set_var: a number, a text with a blank, with a
\* newline, and with a double quote
SetValues ==
    {<<"3", "0">>, <<"a", " ", "b">>, <<"1", "\n", "x">>, <<"a", "\"", "b">>}

\* set_var(upsname, var, value) for each of these values
set_var_value ==
    \E value \in SetValues : ExecSet("set_var", SetVarCmd(s_ups1, s_delay, value))

\* tracking_on(), line 511, and __exec_set, line 480
tracking_on ==
    ExecSet("tracking_on", s_SET \o s_TRACKING \o <<" ">> \o Join(<<(<<"O", "N">>)>>, <<" ">>))

\* tracking_off(), line 517, and __exec_set, line 480
tracking_off ==
    ExecSet("tracking_off",
            s_SET \o s_TRACKING \o <<" ">> \o Join(<<(<<"O", "F", "F">>)>>, <<" ">>))

\* run_cmd(upsname, cmd) without further arguments, lines 530-532
run_cmd ==
    ExecSet("run_cmd", s_INSTCMD \o s_ups1 \o <<" ">> \o s_beeper_on)

\* __exec_set, lines 483-491, and run_cmd, lines 535-543
set_reply ==
    /\ ReadDone
    /\ cur.stage = "set"
    /\ raw_queue' = Carry
    /\ pc' = "idle"
    /\ buf' = <<>>
    /\ cur' = NoCur
    /\ ret' = [op |-> cur.op, kind |-> SetOutcome(Line).kind,
               value |-> SetOutcome(Line).value, line |-> Line, raw |-> None]
    /\ UNCHANGED <<sock, open_fds, nfds, sent, wire, peer, nrecv, sessvars, nops>>

NextSet ==
    \/ enter
    \/ enter_auth
    \/ set_var
    \/ tracking_on
    \/ tracking_off
    \/ run_cmd
    \/ set_reply
    \/ recv

\* a session without credentials, whose caller opens it once and calls the
\* SET and INSTCMD methods as long as none fails
SpecSet == InitGet /\ [][NextSet]_vars

NextArgs ==
    \/ enter
    \/ enter_auth
    \/ set_var_value
    \/ set_reply
    \/ recv

SpecArgs == InitGet /\ [][NextArgs]_vars

----------------------------------------------------------------------------
(* Claims about SET and INSTCMD *)

\* a SET or INSTCMD method has ended after it has read a reply
SetEnded == pc = "idle" /\ ret.op \in SetOps /\ nread >= 1

\* C15: set_var, tracking_on, tracking_off and run_cmd read one line, and the
\* line decides the outcome: "OK" returns no tracking id, "OK TRACKING <id>"
\* returns the id, a line that begins with "ERR " raises the command error, and
\* every other line raises an error.
C15_SetOutcome ==
    SetEnded =>
        /\ nread = 1
        /\ ret.line = results[1]
        /\ CASE ret.line = s_OK -> ret.kind = "return" /\ ret.value = None
             [] StartsWith(ret.line, s_OK_TRACKING) ->
                    /\ ret.kind = "return"
                    /\ ret.value # None
                    /\ ret.line = s_OK_TRACKING \o ret.value[1] \o NL
             [] StartsWith(ret.line, s_ERR) -> ret.kind = CommandError
             [] OTHER -> ret.kind \notin {"none", "return"}

\* set_var has read OK TRACKING T-1 in more than one piece and returns T-1
C15_Witness ==
    /\ SetEnded
    /\ ret.op = "set_var"
    /\ nrecv = 2
    /\ ret.kind = "return"
    /\ ret.value = Some(s_T1)

\* how often the character c is in the text s
RECURSIVE CountOf(_, _)
CountOf(s, c) ==
    IF s = <<>> THEN 0 ELSE (IF Head(s) = c THEN 1 ELSE 0) + CountOf(Tail(s), c)

\* C29: whatever value set_var is called with, what it hands to sendall is one
\* line, with one newline, at its end, and the line has one quoted text, the
\* value: it holds two double quotes that are not escaped.
C29_OneLinePerCall ==
    \A i \in DOMAIN sent :
        LET l == Decode(sent[i])
        IN /\ Find(l, NL) = Len(l) - 1
           /\ Wrote(i, s_SET \o s_VAR) => CountOf(l, "\"") = 2

----------------------------------------------------------------------------
(* run_cmd of the two copies of nutclient.py *)

\* run_cmd of nut_monitor_client/nutclient.py, lines 530-532: the command for
\* the arguments
RunCmdLine(upsname, command, args) ==
    s_INSTCMD \o upsname \o <<" ">> \o command
        \o (IF args # <<>> THEN <<" ">> \o Join(args, <<" ">>) ELSE <<>>)

\* run_cmd of nut-monitor-api/src/nutclient.py, line 445:
\* f"SET {SET.INSTCMD.value} {upsname} {cmd} {' '.join(args)}"
ApiRunCmdLine(upsname, command, args) ==
    s_SET \o s_INSTCMD \o upsname \o <<" ">> \o command \o <<" ">> \o Join(args, <<" ">>)

\* the further arguments a caller hands to run_cmd: none, or one
CmdArgs == {<<>>, <<(<<"5">>)>>}

\* run_cmd, lines 533-534 (446-447 of the copy of the API): the command is
\* written and the reply is read
ExecCmd(full_cmd, args) ==
    /\ Domain
    /\ \/ NoSock("run_cmd")
       \/ /\ sess_sock
          /\ Exchange(full_cmd, SetReactions, raw_queue,
                      Ctx("run_cmd", "set", <<>>, full_cmd, args, <<>>), Fresh)
          /\ UNCHANGED <<sock, raw_queue, open_fds, nfds>>
    /\ UNCHANGED <<spin, script, client, poller, sess_sock, authentication>>

\* run_cmd(upsname, cmd, *args) of the client package
run_cmd_args ==
    \E args \in CmdArgs : ExecCmd(RunCmdLine(s_ups1, s_beeper_on, args), args)

\* run_cmd(upsname, cmd, *args) of the copy the API imports
api_run_cmd ==
    \E args \in CmdArgs : ExecCmd(ApiRunCmdLine(s_ups1, s_beeper_on, args), args)

NextCmd ==
    \/ enter
    \/ enter_auth
    \/ run_cmd_args
    \/ api_run_cmd
    \/ set_reply
    \/ recv

\* a session without credentials, whose caller opens it once and calls run_cmd
\* of either copy
SpecCmd == InitGet /\ [][NextCmd]_vars

\* C33: what run_cmd has written while it waits for its reply is one line, the
\* word INSTCMD, the unit, the command and the further argument if there is
\* one, with one blank between two of them: no SET before it, no blank at its
\* end.
C33_InstCmdLine ==
    (pc # "idle" /\ cur.op = "run_cmd") =>
        sent = <<Encode(s_INSTCMD \o Join(<<s_ups1, s_beeper_on>> \o cur.args, <<" ">>) \o NL)>>

----------------------------------------------------------------------------
(* Claims about var_type *)

\* var_type has ended on a reply that has the echo; ret.raw holds the text
\* after it
TypeEnded == GetEnded /\ ret.op = "var_type" /\ ret.raw # None

\* the words of that text
TypeTokens == Split(ret.raw[1], " ")

\* STRING:
s_STRING_colon ==
    <<"S", "T", "R", "I", "N", "G", ":">>

\* the word is STRING:<n> for an unsigned integer n
IsStringLen(t) ==
    /\ StartsWith(t, s_STRING_colon)
    /\ Len(t) > Len(s_STRING_colon)
    /\ \A i \in (Len(s_STRING_colon) + 1)..Len(t) : t[i] \in Digits

\* the word is one the protocol knows
IsTypeToken(t) == t \in VarTypeEnum \/ IsStringLen(t)

\* C16: var_type returns one descriptor for every word of the GET TYPE value,
\* in the order of the words: the base type without a length for RW, ENUM,
\* STRING, NUMBER and RANGE, and STRING with max_length n for STRING:<n>.
C16_VarTypes ==
    (TypeEnded /\ \A i \in 1..Len(TypeTokens) : IsTypeToken(TypeTokens[i]))
    => /\ ret.kind = "return"
       /\ Len(ret.value) = Len(TypeTokens)
       /\ \A i \in 1..Len(TypeTokens) :
             IF TypeTokens[i] \in VarTypeEnum
             THEN ret.value[i] = [type |-> TypeTokens[i], max_length |-> None]
             ELSE ret.value[i] =
                     [type |-> <<"S", "T", "R", "I", "N", "G">>,
                      max_length |->
                          Some(DigitsValue(Drop(TypeTokens[i], Len(s_STRING_colon)), 0))]

\* var_type has read TYPE ups1 battery.charge RW STRING:20 in more than one
\* piece and returns RW and STRING with max_length 20
C16_Witness ==
    /\ TypeEnded
    /\ nrecv = 2
    /\ ret.kind = "return"
    /\ ret.value = <<[type |-> <<"R", "W">>, max_length |-> None],
                     [type |-> <<"S", "T", "R", "I", "N", "G">>, max_length |-> Some(20)]>>

\* C17: when a word of the GET TYPE value is neither RW, ENUM, STRING, NUMBER
\* or RANGE nor STRING:<unsigned integer>, var_type returns no list and fails
\* with an error of the client that is not the command error.
C17_UnknownType ==
    (TypeEnded /\ \E i \in 1..Len(TypeTokens) : ~IsTypeToken(TypeTokens[i]))
    => ret.kind \in NutClientErrors \ {CommandError}

----------------------------------------------------------------------------
(* NutSession: sequences of operations on one session *)

\* the answers of the server to GET TRACKING <id>: the state of the command, an
\* error line, or no answer
TrackingReactions ==
    {Reaction(s_SUCCESS, "open"), Reaction(s_UNKNOWN_COMMAND, "open"), Reaction(<<>>, "open")}

\* tracking(id), lines 312-313
tracking ==
    /\ Domain
    /\ \/ NoSock("tracking")
       \/ /\ sess_sock
          /\ Exchange(s_GET \o s_TRACKING \o <<" ">> \o s_T1, TrackingReactions, raw_queue,
                      Ctx("tracking", "tracking", <<>>, <<>>, <<s_T1>>, <<>>), Fresh)
          /\ UNCHANGED <<sock, raw_queue, open_fds, nfds>>
    /\ UNCHANGED <<spin, script, client, poller, sess_sock, authentication>>

\* tracking, lines 314-316
tracking_reply ==
    /\ ReadDone
    /\ cur.stage = "tracking"
    /\ raw_queue' = Carry
    /\ IF StartsWith(Line, s_ERR)
       THEN Raise(cur.op, "NutClientCmdError", Line)
       ELSE Return(cur.op, Line, Line)
    /\ UNCHANGED <<sock, open_fds, nfds, sent, wire, peer, nrecv, sessvars, nops>>

MaxSeq == 2         \* domain operations of a caller that goes on after a failure

\* a session without credentials, whose caller opens it once and goes on with
\* it whatever an operation does
InitSeq ==
    /\ Start([stream |-> <<>>, then |-> "open", calls |-> MaxSeq, persist |-> TRUE,
              opens |-> 1])
    /\ authentication = None

\* the caller lists the units before it works with one
list_ups_first ==
    /\ ndomain = 0
    /\ list_ups

NextSeq ==
    \/ enter
    \/ enter_auth
    \/ list_ups_first
    \/ var_value
    \/ set_var
    \/ tracking
    \/ list_head
    \/ list_item
    \/ get_reply
    \/ set_reply
    \/ tracking_reply
    \/ recv

SpecSeq == InitSeq /\ [][NextSeq]_vars

----------------------------------------------------------------------------
(* Claims about sequences of operations *)

DomainOps == GetOps \cup ListOps \cup SetOps \cup {"tracking"}

\* a domain operation has come back to its caller
DomainEnded == pc = "idle" /\ ret.op \in DomainOps

\* what the server has sent and the session has not read
Unread == OrEmpty(raw_queue) \o Decode(wire)

\* a whole line was unread when the current operation started
StaleLines == Contains(stale.queue \o Decode(stale.wire), NL)

\* C18: a domain operation writes at most one command, which is one line, and
\* one that returns normally has written exactly one; if no line was unread
\* when it started, then when it returns normally it has read a line, its
\* command has its answer, and no line the server has sent is unread - so that
\* the next operation starts in the same way.
C18_OneReply ==
    DomainEnded =>
        /\ Len(sent) <= 1
        /\ \A i \in DOMAIN sent :
               Find(Decode(sent[i]), NL) = Len(sent[i]) - 1
        /\ ret.kind = "return" => Len(sent) = 1
        /\ (ret.kind = "return" /\ ~StaleLines) =>
               /\ nread >= 1
               /\ log # <<>> /\ log[Len(log)].answer # "none"
               /\ ~Contains(Unread, NL)

\* the second operation of a session is tracking, the first has had its answer;
\* tracking has started with nothing unread and has returned the one line of
\* its reply
C18_Witness ==
    /\ DomainEnded
    /\ ret.op = "tracking"
    /\ ret.kind = "return"
    /\ ndomain = 2
    /\ stale = [queue |-> <<>>, wire |-> <<>>]
    /\ nread = 1
    /\ Len(log) = 2
    /\ \A i \in DOMAIN log : log[i].answer # "none"
    /\ Unread = <<>>

\* C19: a domain operation that started while a whole line of an earlier reply
\* was unread does not return a value: it ends with an exception.
C19_StaleFails ==
    (DomainEnded /\ StaleLines) => ret.kind # "return"

\* C20: a command is written on the session only when the command written
\* before it has had its answer and no line the server has sent is unread.
C20_OneInFlight ==
    [][Len(log') > Len(log) =>
          /\ log # <<>> => log[Len(log)].answer # "none"
          /\ ~Contains(Unread, NL)]_vars

----------------------------------------------------------------------------
(* NutSession: use of a session after its close *)

\* a session without credentials whose caller opens it, closes it, and then
\* goes on to use it
InitReuse ==
    /\ Start([stream |-> <<>>, then |-> "open", calls |-> MaxDomain, persist |-> TRUE,
              opens |-> MaxFds])
    /\ authentication = None

NextReuse ==
    \/ enter
    \/ enter_auth
    \/ exit
    \/ logout_reply
    \/ var_value
    \/ get_reply
    \/ recv

SpecReuse == InitReuse /\ [][NextReuse]_vars

\* __exit__ has ended on a session that was opened
Closed ==
    /\ pc = "idle"
    /\ ret.op = "__exit__"
    /\ ret.kind # "return" => (sock # 0 /\ peer # "none")

\* C25: the operation that follows the close of a session, a domain operation
\* or __enter__, ends at once with an exception, connects no socket and writes
\* nothing.
C25_NoReuse ==
    [][(/\ Closed
        /\ nops' = nops + 1
        /\ (IF pc' = "idle" THEN ret'.op ELSE cur'.op) # "__exit__")
        => (/\ pc' = "idle"
            /\ ret'.kind # "return"
            /\ nfds' = nfds
            /\ sent' = <<>>)]_vars

----------------------------------------------------------------------------
(* NutClient: several sessions of one client *)

MaxSessions == 2    \* sessions one NutClient makes

\* every variable of the single session, which is not part of these scenarios
onevars == <<sock, raw_queue, open_fds, nfds, wire, peer, sent, pc, buf, cur, ret,
             rcvd, results, nrecv, spin, recv_ok, nread, stale, log, script, sess_sock,
             authentication, nops, ndomain>>

\* the name of a session in the lines the server sends on its connection
SessionName(fd) == SubSeq(<<"1", "2", "3", "4", "5", "6", "7", "8", "9">>, fd, fd)

\* NutSock.__init__, lines 28-29
NewNutSock == [fd |-> 0, raw_queue |-> None]

\* the one NutSock of the client, for every session
SessionSock_shared(socks) == 1

\* NutSession.__init__, line 111: self.sock = nutsock.NutSock(...), an object
\* made for this session
SessionSock(socks) == Len(socks) + 1

\* the NutSock a session refers to, and the socket that NutSock refers to
SockOf(s) == client.sess[s].sock
FdOf(s) == IF SockOf(s) = 0 THEN 0 ELSE client.socks[SockOf(s)].fd

\* session s is between two calls and has its NutSock
Ready(s) ==
    /\ s \in DOMAIN client.sess
    /\ client.sess[s].pc = "idle"
    /\ SockOf(s) # 0

\* NutClient.session(authentication), lines 52-57, with NutSession.__init__,
\* lines 111-112; the first session is made with credentials, the others
\* without
session ==
    /\ Len(client.sess) < MaxSessions
    /\ LET a == IF client.sess = <<>> THEN Some([username |-> s_user, password |-> s_pass])
                ELSE None
       IN client' = [client EXCEPT
              !.socks = Append(client.socks, NewNutSock),
              !.sess = Append(client.sess,
                              [sock |-> SessionSock(client.socks), authentication |-> a,
                               pc |-> "idle", buf |-> <<>>, got |-> <<>>]),
              !.last = Len(client.sess) + 1]
    /\ UNCHANGED <<onevars, poller>>

\* __enter__, line 116, and NutSock.connect, lines 49-51: a new socket, owned
\* by the session that has made it; the caller opens a session once
session_enter ==
    /\ \E s \in DOMAIN client.sess :
          /\ Ready(s)
          /\ FdOf(s) = 0
          /\ client' = [client EXCEPT
                 !.conn = Append(client.conn,
                                 [wire |-> <<>>, open |-> TRUE, authed |-> FALSE, ncmd |-> 0,
                                  owner |-> s]),
                 !.socks[SockOf(s)].fd = Len(client.conn) + 1,
                 !.last = s]
    /\ UNCHANGED <<onevars, poller>>

\* NutSock.cmd, line 64: a line is written on the socket of the session, one
\* command on each connection; the server answers on that connection with
\* lines that name the session the connection belongs to, one to PASSWORD,
\* which authenticates the connection, and two to GET
session_cmd ==
    /\ \E s \in DOMAIN client.sess, word \in {s_PASSWORD, s_GET} :
          /\ Ready(s)
          /\ FdOf(s) # 0
          /\ client.conn[FdOf(s)].open
          /\ client.conn[FdOf(s)].ncmd = 0
          /\ client' = [client EXCEPT
                 !.conn[FdOf(s)].wire =
                     LET line == SessionName(client.conn[FdOf(s)].owner) \o NL
                     IN @ \o (IF word = s_GET THEN line \o line ELSE line),
                 !.conn[FdOf(s)].ncmd = @ + 1,
                 !.conn[FdOf(s)].authed = @ \/ word = s_PASSWORD,
                 !.last = s]
    /\ UNCHANGED <<onevars, poller>>

\* NutSock.read_until("\n"), line 79
session_read_line ==
    /\ \E s \in DOMAIN client.sess :
          /\ Ready(s)
          /\ FdOf(s) # 0
          /\ client.conn[FdOf(s)].open
          /\ client' = [client EXCEPT
                 !.sess[s].pc = "read",
                 !.sess[s].buf = OrEmpty(client.socks[SockOf(s)].raw_queue),
                 !.last = s]
    /\ UNCHANGED <<onevars, poller>>

\* read_until, lines 80-81: one recv on the socket of the NutSock; with
\* nothing to receive the call ends with socket.timeout
session_recv ==
    /\ \E s \in DOMAIN client.sess :
          /\ client.sess[s].pc = "read"
          /\ ~Contains(client.sess[s].buf, NL)
          /\ LET w == client.conn[FdOf(s)].wire
             IN IF w = <<>>
                THEN client' = [client EXCEPT !.sess[s].pc = "idle", !.sess[s].buf = <<>>,
                                              !.last = s]
                ELSE \E k \in 1..Min(RecvSize, Len(w)) :
                        client' = [client EXCEPT
                            !.conn[FdOf(s)].wire = Drop(w, k),
                            !.sess[s].buf = @ \o Take(w, k),
                            !.last = s]
    /\ UNCHANGED <<onevars, poller>>

\* read_until, lines 82-86: the line goes to the session and the rest into the
\* raw_queue of its NutSock
session_line ==
    /\ \E s \in DOMAIN client.sess :
          /\ client.sess[s].pc = "read"
          /\ Contains(client.sess[s].buf, NL)
          /\ LET r == ReadUntilResult(client.sess[s].buf, NL)
             IN client' = [client EXCEPT
                    !.socks[SockOf(s)].raw_queue = Some(r.rest),
                    !.sess[s].pc = "idle",
                    !.sess[s].buf = <<>>,
                    !.sess[s].got = Append(@, r.response),
                    !.last = s]
    /\ UNCHANGED <<onevars, poller>>

\* NutSession.__exit__, lines 126-129, and NutSock.__exit__, lines 36-39, when
\* nothing is unread and the server answers LOGOUT with its farewell (the
\* close that fails in logout is part of the life of one session, above)
session_exit ==
    /\ \E s \in DOMAIN client.sess :
          /\ Ready(s)
          /\ FdOf(s) # 0 =>
                 /\ client.conn[FdOf(s)].wire = <<>>
                 /\ OrEmpty(client.socks[SockOf(s)].raw_queue) = <<>>
          /\ client' = [client EXCEPT
                 !.conn = IF FdOf(s) = 0 THEN @ ELSE [@ EXCEPT ![FdOf(s)].open = FALSE],
                 !.socks[SockOf(s)] = NewNutSock,
                 !.sess[s].sock = 0,
                 !.last = s]
    /\ UNCHANGED <<onevars, poller>>

InitClient ==
    /\ Start([stream |-> <<>>, then |-> "open", calls |-> 0, persist |-> FALSE, opens |-> 0])
    /\ authentication = None

NextClient ==
    \/ session
    \/ session_enter
    \/ session_cmd
    \/ session_read_line
    \/ session_recv
    \/ session_line
    \/ session_exit

SpecClient == InitClient /\ [][NextClient]_vars

----------------------------------------------------------------------------
(* Claims about the sessions of one client *)

\* what belongs to session t: its own fields, its NutSock, the connection of
\* that NutSock with what the server has sent on it and whether it is
\* authenticated
View(t) ==
    [session |-> client.sess[t],
     nutsock |-> IF SockOf(t) = 0 THEN <<>> ELSE <<client.socks[SockOf(t)]>>,
     conn    |-> IF FdOf(t) = 0 THEN <<>> ELSE <<client.conn[FdOf(t)]>>]

\* no two sessions refer to the same NutSock or to the same socket
OwnSock ==
    \A t, u \in DOMAIN client.sess :
        t # u =>
            /\ SockOf(t) # 0 => SockOf(t) # SockOf(u)
            /\ FdOf(t) # 0 => FdOf(t) # FdOf(u)

\* every line a session has read was sent on a connection that session has made
OwnLines ==
    \A t \in DOMAIN client.sess :
        \A i \in DOMAIN client.sess[t].got :
            client.sess[t].got[i] = SessionName(t) \o NL

\* C21: the sessions of a client have each their own NutSock and socket; a
\* step of one session leaves the fields, the NutSock (socket reference and
\* raw_queue) and the connection of every other session as they are, and a
\* session reads only lines the server has sent on its own connection.
C21_OwnState ==
    [][/\ \A t \in DOMAIN client.sess : t # client'.last => View(t)' = View(t)
       /\ OwnSock'
       /\ OwnLines']_vars

\* two sessions are open at once, each has written a command, and each has
\* read a line sent on its own connection, one of them with credentials; a
\* line for the second is in the raw_queue of its NutSock
C21_Witness ==
    /\ Len(client.sess) = 2
    /\ FdOf(1) # 0 /\ FdOf(2) # 0
    /\ client.sess[1].got # <<>>
    /\ client.sess[2].got # <<>>
    /\ client.socks[SockOf(2)].raw_queue = Some(SessionName(2) \o NL)
    /\ client.sess[1].authentication # client.sess[2].authentication
    /\ client.conn[FdOf(1)].authed /\ ~client.conn[FdOf(2)].authed

----------------------------------------------------------------------------
(* The metrics poller: what it derives from the variables of a unit *)

UPS_STATUS_KEY == "ups.status"
CALC_UPS_STATUS_KEY == "calc.status.ups"
CALC_ALARM_STATUS_KEY == "calc.status.alarm"
CALC_BATTERY_STATUS_KEY == "calc.status.battery"
CALC_REALPOWER_KEY == "calc.ups.realpower"

\* the keys of the copy of the poller in nut-monitor-api/src/prometeus.py
UPS_ALARM_KEY == "ups.alarm"
BTR_CHRG_STAT_KEY == "battery.charger.status"

\* the keys of a statistics dict in the model; a key that is not in the dict
\* has the value None
StatKeys ==
    {"ups.load", "ups.realpower.nominal", "battery.charge", UPS_STATUS_KEY, CALC_UPS_STATUS_KEY,
     CALC_ALARM_STATUS_KEY, CALC_BATTERY_STATUS_KEY, CALC_REALPOWER_KEY, UPS_ALARM_KEY,
     BTR_CHRG_STAT_KEY}

\* ALARM
s_ALARM ==
    <<"A", "L", "A", "R", "M">>

\* the values of ups.status a server reports: one word, two, an alarm with one
\* and with two words between ALARM and its kind, ALARM and a kind alone,
\* ALARM alone, and the empty text
Statuses ==
    {<<"O", "L">>,
     <<"O", "L", " ", "C", "H", "R", "G">>,
     <<"O", "B", " ", "D", "I", "S", "C", "H", "R", "G">>,
     <<"A", "L", "A", "R", "M", " ", "O", "L", " ", "L", "B">>,
     <<"A", "L", "A", "R", "M", " ", "O", "L", " ", "C", "H", "R", "G", " ", "L", "B">>,
     <<"A", "L", "A", "R", "M", " ", "L", "B">>,
     s_ALARM,
     <<>>}

\* what list_vars returns for a unit: ups.load is missing, a number or no
\* number, ups.realpower.nominal likewise, ups.status is missing or one of
\* Statuses; the server reports none of the derived variables
StatInputs ==
    {[k \in StatKeys |->
        CASE k = "ups.load" -> load
          [] k = "ups.realpower.nominal" -> nominal
          [] k = UPS_STATUS_KEY -> status
          [] OTHER -> None] :
     load \in {None, Some(<<"5", "0">>), Some(<<"7">>), Some(<<"x">>)},
     nominal \in {None, Some(<<"2", "0", "0">>), Some(<<"y">>)},
     status \in {None} \cup {Some(t) : t \in Statuses}}

\* statistics[key] = value
Put(statistics, key, value) == [statistics EXCEPT ![key] = Some(value)]

\* str(n) of an int n >= 0
RECURSIVE IntStr(_)
IntStr(n) == IF n < 10 THEN <<Chr(48 + n)>> ELSE IntStr(n \div 10) \o <<Chr(48 + (n % 10))>>

\* str(n / 100) of an int n >= 0: the float with its shortest digits, one digit
\* after the point at least
FloatStr(n) ==
    IntStr(n \div 100) \o <<".">> \o
        (IF n % 100 = 0 THEN <<"0">>
         ELSE IF n % 10 = 0 THEN IntStr((n % 100) \div 10)
         ELSE <<Chr(48 + ((n % 100) \div 10)), Chr(48 + (n % 10))>>)

\* what a function of the poller does to a statistics dict: it returns, or the
\* exception exc leaves it
Done(statistics) == [exc |-> "none", statistics |-> statistics]
Raised(exc, statistics) == [exc |-> exc, statistics |-> statistics]

\* calculate_ups_power, lines 322-330: int() of a value that is missing is
\* int(None), a TypeError, which the except ValueError does not catch
calculate_ups_power(statistics) ==
    LET load == statistics["ups.load"]
        nominal == statistics["ups.realpower.nominal"]
    IN IF load = None THEN Raised("TypeError", statistics)
       ELSE IF ~IsInt(load[1]) THEN Done(Put(statistics, CALC_REALPOWER_KEY, <<"0">>))
       ELSE IF nominal = None THEN Raised("TypeError", statistics)
       ELSE IF ~IsInt(nominal[1]) THEN Done(Put(statistics, CALC_REALPOWER_KEY, <<"0">>))
       ELSE Done(Put(statistics, CALC_REALPOWER_KEY,
                     FloatStr(IntValue(nominal[1]) * IntValue(load[1]))))

\* NONE
s_NONE ==
    <<"N", "O", "N", "E">>

\* unwrap_legacy_ups_status, lines 300-320
unwrap_legacy_ups_status(statistics) ==
    IF statistics[UPS_STATUS_KEY] = None THEN Raised("KeyError", statistics)
    ELSE LET all == Split(statistics[UPS_STATUS_KEY][1], " ")
             alarm == all[1] = s_ALARM
             with_alarm == IF alarm THEN Put(statistics, CALC_ALARM_STATUS_KEY, all[Len(all)])
                           ELSE statistics
             parts == IF alarm THEN SubSeq(all, 2, Len(all) - 1) ELSE all
         IN IF parts = <<>> THEN Done(with_alarm)
            ELSE Done(Put(Put(with_alarm, CALC_UPS_STATUS_KEY, parts[1]),
                          CALC_BATTERY_STATUS_KEY,
                          IF Len(parts) > 1 THEN parts[2] ELSE s_NONE))

\* CHARGER_STATUS_LEGACY_TO_NEW.get(legacy_battery_status, "resting") of
\* nut-monitor-api/src/prometeus.py, lines 227-230 and 292
ChargerStatus(legacy) ==
    IF legacy = <<"C", "H", "R", "G">> THEN <<"c", "h", "a", "r", "g", "i", "n", "g">>
    ELSE IF legacy = <<"D", "I", "S", "C", "H", "R", "G">> THEN <<"d", "i", "s", "c", "h", "a", "r", "g", "i", "n", "g">>
    ELSE <<"r", "e", "s", "t", "i", "n", "g">>

\* unwrap_legacy_ups_status of nut-monitor-api/src/prometeus.py, lines 271-298:
\* the alarm goes to ups.alarm, the first word replaces ups.status, and the
\* second goes, translated, to battery.charger.status
api_unwrap_legacy_ups_status(statistics) ==
    IF statistics[UPS_STATUS_KEY] = None THEN Raised("KeyError", statistics)
    ELSE LET all == Split(statistics[UPS_STATUS_KEY][1], " ")
             alarm == all[1] = s_ALARM
             with_alarm ==
                 IF ~alarm THEN statistics
                 ELSE IF statistics[UPS_ALARM_KEY] # None
                 THEN Put(statistics, UPS_ALARM_KEY,
                          statistics[UPS_ALARM_KEY][1] \o <<" ">> \o all[Len(all)])
                 ELSE Put(statistics, UPS_ALARM_KEY, all[Len(all)])
             parts == IF alarm THEN SubSeq(all, 2, Len(all) - 1) ELSE all
         IN IF parts = <<>> THEN Done(with_alarm)
            ELSE LET with_status == Put(with_alarm, UPS_STATUS_KEY, parts[1])
                 IN IF Len(parts) > 1
                    THEN Done(Put(with_status, BTR_CHRG_STAT_KEY, ChargerStatus(parts[2])))
                    ELSE IF with_status[BTR_CHRG_STAT_KEY] = None
                    THEN Done(Put(with_status, BTR_CHRG_STAT_KEY, <<"r", "e", "s", "t", "i", "n", "g">>))
                    ELSE Done(with_status)

\* fetch_data, line 341: list_vars has returned the variables of a unit
listed ==
    /\ poller.last.stage \in {"none", "status", "raised"}
    /\ \E statistics \in StatInputs :
          poller' = [poller EXCEPT !.last = [ups |-> "ups1@h", listed |-> statistics,
                                             statistics |-> statistics, stage |-> "listed",
                                             exc |-> "none"]]
    /\ UNCHANGED <<onevars, client>>

\* a function of the poller is applied to the statistics dict of fetch_data
Applied(out, stage) ==
    poller' = [poller EXCEPT !.last.statistics = out.statistics,
                             !.last.exc = out.exc,
                             !.last.stage = IF out.exc = "none" THEN stage ELSE "raised"]

\* fetch_data, line 342: calculate_ups_power(statistics)
calculated ==
    /\ poller.last.stage = "listed"
    /\ Applied(calculate_ups_power(poller.last.statistics), "power")
    /\ UNCHANGED <<onevars, client>>

\* fetch_data, line 343: unwrap_legacy_ups_status(statistics)
unwrapped ==
    /\ poller.last.stage = "power"
    /\ Applied(unwrap_legacy_ups_status(poller.last.statistics), "status")
    /\ UNCHANGED <<onevars, client>>

\* the same line of the copy of the poller in nut-monitor-api
api_unwrapped ==
    /\ poller.last.stage = "power"
    /\ Applied(api_unwrap_legacy_ups_status(poller.last.statistics), "status")
    /\ UNCHANGED <<onevars, client>>

InitCalc ==
    /\ Start([stream |-> <<>>, then |-> "open", calls |-> 0, persist |-> FALSE, opens |-> 0])
    /\ authentication = None

NextCalc ==
    \/ listed
    \/ calculated
    \/ unwrapped
    \/ api_unwrapped

\* fetch_data up to its loops, for every statistics dict of StatInputs, with
\* unwrap_legacy_ups_status of either copy of the poller
SpecCalc == InitCalc /\ [][NextCalc]_vars

\* calculate_ups_power was the last function applied
AfterPower ==
    \/ poller.last.stage = "power"
    \/ poller.last.stage = "raised" /\ poller.last.exc = "TypeError"

\* the value is missing or int() does not take it
NoInt(value) == value = None \/ ~IsInt(value[1])

\* C39: calculate_ups_power returns for every statistics dict, and when
\* ups.load or ups.realpower.nominal is missing or no integer it has set
\* calc.ups.realpower to the power 0.
C39_PowerNeverRaises ==
    AfterPower =>
        /\ poller.last.exc = "none"
        /\ (NoInt(poller.last.listed["ups.load"])
               \/ NoInt(poller.last.listed["ups.realpower.nominal"]))
           => poller.last.statistics[CALC_REALPOWER_KEY] = Some(<<"0">>)

\* the words of the ups.status that list_vars has returned
StatusWords == Split(poller.last.listed[UPS_STATUS_KEY][1], " ")

\* the function has set the key: list_vars has returned no value for it
IsSet(key) == poller.last.statistics[key] # None

\* C40: unwrap_legacy_ups_status leaves ups.status as it is; of the status S
\* it makes calc.status.ups S and calc.status.battery NONE, of S B
\* calc.status.battery B, and of ALARM S ... A calc.status.alarm A and
\* calc.status.ups S; it sets calc.status.battery whenever it sets
\* calc.status.ups, and calc.status.alarm only if the first word is ALARM.
C40_StatusFields ==
    (poller.last.stage = "status") =>
        LET out == poller.last.statistics
            w == StatusWords
        IN /\ out[UPS_STATUS_KEY] = poller.last.listed[UPS_STATUS_KEY]
           /\ (Len(w) = 1 /\ w[1] # s_ALARM) =>
                 /\ out[CALC_UPS_STATUS_KEY] = Some(w[1])
                 /\ out[CALC_BATTERY_STATUS_KEY] = Some(s_NONE)
           /\ (Len(w) = 2 /\ w[1] # s_ALARM) =>
                 /\ out[CALC_UPS_STATUS_KEY] = Some(w[1])
                 /\ out[CALC_BATTERY_STATUS_KEY] = Some(w[2])
           /\ (Len(w) >= 3 /\ w[1] = s_ALARM) =>
                 /\ out[CALC_ALARM_STATUS_KEY] = Some(w[Len(w)])
                 /\ out[CALC_UPS_STATUS_KEY] = Some(w[2])
           /\ IsSet(CALC_UPS_STATUS_KEY) => IsSet(CALC_BATTERY_STATUS_KEY)
           /\ IsSet(CALC_ALARM_STATUS_KEY) => w[1] = s_ALARM

----------------------------------------------------------------------------
(* The metrics poller: prometeus.py *)

MaxPolls == 2       \* passes of the loop of the poller

\* the units list_ups can name, as the poller labels them
Units == {"ups1@h", "ups2@h"}

\* the keys of gauge_metric_config, enum_metric_config with the states of the
\* enum, and info_metric_config: two gauges, an enum and an info
gauge_metric_config == {"ups.load", "battery.charge"}
enum_metric_config == {CALC_UPS_STATUS_KEY}
EnumStates == {<<"O", "F", "F">>, <<"O", "L">>, <<"O", "B">>}
info_metric_config == {UPS_STATUS_KEY}

\* the keys of service_metrics once init_metrics has run, lines 284-298
service_metrics == gauge_metric_config \cup enum_metric_config \cup info_metric_config

\* the keys of service_info_metrics, lines 430-433
service_info_metrics == {"ups.info", "ups.driver.info"}

\* the lists of units list_ups returns
UnitLists == {<<>>, <<"ups1@h">>, <<"ups2@h">>, <<"ups1@h", "ups2@h">>}

\* an observation: what a metric exports for a unit, and the pass of the loop
\* that has published it (0 for initialize_ups)
Observation(key, ups, round) == [key |-> key, ups |-> ups, round |-> round]

\* what the poll metrics export
Polled(published) == {o \in published : o.key \in service_metrics}

\* what the metadata metrics export
Metadata(published) == {o \in published : o.key \in service_info_metrics}

\* the delay of a member of State, lines 450-457
Delay(state) ==
    CASE state = "OK" -> 5
      [] state = "CONNECTION_ERROR" -> 60
      [] state = "FATAL_ERROR" -> 30

\* the statistics dict with these four variables
Stat(load, nominal, status, charge) ==
    [k \in StatKeys |->
        CASE k = "ups.load" -> load
          [] k = "ups.realpower.nominal" -> nominal
          [] k = UPS_STATUS_KEY -> status
          [] k = "battery.charge" -> charge
          [] OTHER -> None]

\* what list_vars returns for a unit in a pass of the loop: all variables; an
\* empty load, an empty status and no charge; no load; a load that is no
\* number and an alarm without a status word; a status word that is no state
\* of the enum; no status
PollInputs ==
    {Stat(Some(<<"5", "0">>), Some(<<"2", "0", "0">>), Some(<<"O", "L", " ", "C", "H", "R", "G">>), Some(<<"9", "0">>)),
     Stat(Some(<<>>), Some(<<"2", "0", "0">>), Some(<<>>), None),
     Stat(None, Some(<<"2", "0", "0">>), Some(<<"O", "L">>), Some(<<"9", "0">>)),
     Stat(Some(<<"x">>), None, Some(<<"A", "L", "A", "R", "M", " ", "L", "B">>), None),
     Stat(Some(<<"5", "0">>), None, Some(<<"X", "X">>), Some(<<"9", "0">>)),
     Stat(Some(<<"5", "0">>), Some(<<"2", "0", "0">>), None, Some(<<"9", "0">>))}

\* the child of the metric stays
safe_remove_metric_keep(published, key, ups) == published

\* safe_remove_metric(key, ups), lines 332-337: service_metrics[key].remove(ups)
safe_remove_metric(published, key, ups) ==
    IF key \in service_metrics
    THEN {o \in published : ~(o.key = key /\ o.ups = ups)}
    ELSE published

\* the children of every unit go
RemoveAll_every(published, keys, ups) == {o \in published : o.key \notin keys}

\* for key in service_metrics: safe_remove_metric(key, ups), lines 386-387
RECURSIVE RemoveAll(_, _, _)
RemoveAll(published, keys, ups) ==
    IF keys = {} THEN published
    ELSE LET key == CHOOSE k \in keys : TRUE
         IN RemoveAll(safe_remove_metric(published, key, ups), keys \ {key}, ups)

\* a value that is missing leaves what was published
SetMetric_stale(published, key, ups, round, how) ==
    CASE how = "set" ->
            {o \in published : ~(o.key = key /\ o.ups = ups)} \cup {Observation(key, ups, round)}
      [] how = "child" ->
            IF \E o \in published : o.key = key /\ o.ups = ups THEN published
            ELSE published \cup {Observation(key, ups, round)}
      [] OTHER -> published

\* fetch_data, lines 345-374, for one key: the value is there and is set; the
\* value is missing or empty and the child is removed; the exception of the
\* conversion or of the lookup of the metric is logged; or the exception of
\* Enum.state is logged after labels(ups=ups) has made the child, which then
\* exports the first state if it is new
SetMetric(published, key, ups, round, how) ==
    CASE how = "set" ->
            {o \in published : ~(o.key = key /\ o.ups = ups)} \cup {Observation(key, ups, round)}
      [] how = "missing" -> safe_remove_metric(published, key, ups)
      [] how = "child" ->
            IF \E o \in published : o.key = key /\ o.ups = ups THEN published
            ELSE published \cup {Observation(key, ups, round)}
      [] OTHER -> published

\* fetch_data, lines 346-347, 349-350, 358-360, 368-370: what becomes of the
\* key for the statistics; without init_metrics service_metrics[varname]
\* raises KeyError
How(key, statistics, inited) ==
    LET value == statistics[key]
    IN IF value = None \/ value = Some(<<>>) THEN "missing"
       ELSE IF ~inited THEN "raises"
       ELSE IF key \in gauge_metric_config
       THEN (IF IsInt(value[1]) THEN "set" ELSE "raises")
       ELSE IF key \in enum_metric_config
       THEN (IF value[1] \in EnumStates THEN "set" ELSE "child")
       ELSE "set"

\* fetch_data for every key, in some order
RECURSIVE SetAll(_, _, _, _, _)
SetAll(published, keys, ups, round, how) ==
    IF keys = {} THEN published
    ELSE LET key == CHOOSE k \in keys : TRUE
         IN SetAll(SetMetric(published, key, ups, round, how[key]), keys \ {key}, ups, round,
                   how)

\* fetch_data, lines 342-374, once list_vars has returned statistics: the
\* exception that leaves it, the dict, and what the metrics export
FetchData(published, ups, round, statistics, inited) ==
    LET power == calculate_ups_power(statistics)
        status == unwrap_legacy_ups_status(power.statistics)
    IN IF power.exc # "none"
       THEN [exc |-> power.exc, statistics |-> power.statistics, published |-> published]
       ELSE IF status.exc # "none"
       THEN [exc |-> status.exc, statistics |-> status.statistics, published |-> published]
       ELSE [exc |-> "none", statistics |-> status.statistics,
             published |-> SetAll(published, service_metrics, ups, round,
                                  [k \in service_metrics |-> How(k, status.statistics, inited)])]

\* every metric is cleared
clear_metrics_all(published) == {}

\* clear_metrics(), lines 443-448: for key in service_metrics
clear_metrics(published) == {o \in published : o.key \notin service_metrics}

\* nothing is cleared
ClearIfFailed_never(state, published) == published

\* the loop of __main__, lines 489-490: if state != State.OK: clear_metrics()
ClearIfFailed(state, published) ==
    IF state # "OK" THEN clear_metrics(published) ELSE published

\* the loop ends
LoopFailed_stop(exc, round) ==
    poller' = [poller EXCEPT !.todo = <<>>, !.pc = "exit", !.cycle = exc, !.round = round]

\* the loop of __main__, lines 482-491, when exc has left fetch_all_data: the
\* state is CONNECTION_ERROR for NutClientConnectError and FATAL_ERROR for
\* any other exception, the metrics are cleared, and the poller sleeps; round
\* is the number of the pass
LoopFailed(exc, round) ==
    LET state == IF exc = ConnectError THEN "CONNECTION_ERROR" ELSE "FATAL_ERROR"
    IN poller' = [poller EXCEPT !.published = ClearIfFailed(state, @), !.todo = <<>>,
                                !.pc = "sleep", !.state = state, !.delay = Delay(state),
                                !.cycle = exc, !.round = round]

\* the exceptions that leave the session: the class the loop names, which
\* exceptions.py defines, and any other
SessionErrors == {ConnectError, "Exception"}

\* initialize_ups, lines 429-441: the metadata of every unit list_ups names is
\* published and init_metrics is called once for each unit.  Without a unit
\* service_metrics stays empty; with a second unit init_metrics registers the
\* metrics again, which raises ValueError, and so does the session if it
\* fails: nothing catches it and the poller ends.
initialize_ups ==
    /\ poller.pc = "start"
    /\ \/ \E units \in UnitLists :
             poller' = [poller EXCEPT
                 !.published = {Observation(key, units[i], 0) :
                                   key \in service_info_metrics, i \in 1..Len(units)},
                 !.inited = Len(units) > 0,
                 !.pc = IF Len(units) > 1 THEN "exit" ELSE "loop"]
       \/ poller' = [poller EXCEPT !.pc = "exit"]
    /\ UNCHANGED <<onevars, client>>

\* the loop calls fetch_all_data, line 481: the session is opened and list_ups
\* is called, lines 379-380; either of them can raise
fetch_all_data ==
    /\ poller.pc = "loop"
    /\ poller.round < MaxPolls
    /\ \/ \E units \in UnitLists :
             poller' = [poller EXCEPT !.round = @ + 1, !.todo = units, !.pc = "units",
                                      !.cycle = "none"]
       \/ \E exc \in SessionErrors : LoopFailed(exc, poller.round + 1)
    /\ UNCHANGED <<onevars, client>>

\* fetch_all_data, lines 381-387, for the next unit: list_vars raises, or
\* fetch_data goes on with the statistics; when an exception leaves fetch_data
\* every metric of the unit is removed
fetch_data ==
    /\ poller.pc = "units"
    /\ poller.todo # <<>>
    /\ LET ups == Head(poller.todo)
           before == {o \in poller.published : o.ups = ups}
       IN \E listing \in PollInputs \cup {None} :
             LET out == IF listing = None
                        THEN [exc |-> "Exception", statistics |-> <<>>,
                              published |-> poller.published]
                        ELSE FetchData(poller.published, ups, poller.round, listing,
                                       poller.inited)
                 after == IF out.exc = "none" THEN out.published
                          ELSE RemoveAll(out.published, service_metrics, ups)
             IN poller' = [poller EXCEPT
                    !.published = after,
                    !.gone = before \ after,
                    !.dropped = IF out.exc = "none" THEN @ ELSE @ \cup before,
                    !.failed = IF out.exc = "none" THEN @
                               ELSE {f \in @ : f.ups # ups}
                                       \cup {[ups |-> ups, round |-> poller.round]},
                    !.last = [ups |-> ups, listed |-> listing, statistics |-> out.statistics,
                              stage |-> IF out.exc = "none" THEN "fetched" ELSE "raised",
                              exc |-> out.exc],
                    !.todo = Tail(@)]
    /\ UNCHANGED <<onevars, client>>

\* fetch_all_data after the last unit, line 379: the session is left, which can
\* raise in logout; then the loop, lines 482-491: state = State.OK, nothing to
\* clear, time.sleep(state.delay)
fetch_all_done ==
    /\ poller.pc = "units"
    /\ poller.todo = <<>>
    /\ \/ poller' = [poller EXCEPT !.published = ClearIfFailed("OK", @), !.pc = "sleep",
                                   !.state = "OK", !.delay = Delay("OK"), !.cycle = "ok"]
       \/ \E exc \in SessionErrors : LoopFailed(exc, poller.round)
    /\ UNCHANGED <<onevars, client>>

\* time.sleep(state.delay), line 491, returns and the loop goes on
slept ==
    /\ poller.pc = "sleep"
    /\ poller' = [poller EXCEPT !.pc = "loop", !.delay = 0]
    /\ UNCHANGED <<onevars, client>>

InitPoller ==
    /\ Start([stream |-> <<>>, then |-> "open", calls |-> 0, persist |-> FALSE, opens |-> 0])
    /\ authentication = None

NextPoller ==
    \/ initialize_ups
    \/ fetch_all_data
    \/ fetch_data
    \/ fetch_all_done
    \/ slept

SpecPoller == InitPoller /\ [][NextPoller]_vars

\* the poller is one thread: a call it makes returns or raises, and the socket
\* timeout and time.sleep bound the time it waits
FairSpecPoller == SpecPoller /\ WF_vars(NextPoller)

C34_KeepsPolling ==
    /\ [](poller.pc = "sleep" =>
            /\ poller.cycle = "ok" => (poller.state = "OK" /\ poller.delay = 5)
            /\ poller.cycle = ConnectError =>
                  (poller.state = "CONNECTION_ERROR" /\ poller.delay = 60)
            /\ poller.cycle \notin {"ok", ConnectError} =>
                  (poller.state = "FATAL_ERROR" /\ poller.delay = 30))
    /\ \A n \in 1..(MaxPolls - 1) :
          (poller.round = n /\ poller.cycle # "none") ~> (poller.round = n + 1)

\* the second pass has started after a first pass that has ended with
\* NutClientConnectError
C34_Witness ==
    /\ poller.round = 2
    /\ poller.pc = "units"
    /\ poller.state = "CONNECTION_ERROR"

\* C35: while the state of the poller is not OK, from the end of a failed pass
\* to the end of the next pass that succeeds, the poll metrics export nothing
\* of an earlier pass: they are empty when the loop sleeps, and what they hold
\* during a pass was published in that pass.
C35_ClearedOnFailure ==
    (poller.state # "OK") =>
        /\ poller.pc # "units" => Polled(poller.published) = {}
        /\ \A o \in Polled(poller.published) : o.round = poller.round

\* the poller sleeps after a pass in which fetch_data has published the load
\* of a unit and which has then failed when the session was left: the poll
\* metrics export nothing
C35_Witness ==
    /\ poller.pc = "sleep"
    /\ poller.state = "FATAL_ERROR"
    /\ poller.inited
    /\ poller.last.stage = "fetched"
    /\ poller.last.listed["ups.load"] = Some(<<"5", "0">>)
    /\ Polled(poller.published) = {}

\* C36: when an exception leaves fetch_data for a unit, fetch_all_data goes on
\* with the units that are left, the pass and the state of the poller are as
\* before, and what the metrics export for the other units is unchanged.
C36_FailureContained ==
    [][(/\ poller.pc = "units"
        /\ poller.todo # <<>>
        /\ poller' # poller
        /\ poller'.last.stage = "raised") =>
          /\ poller'.pc = "units"
          /\ poller'.todo = Tail(poller.todo)
          /\ poller'.state = poller.state
          /\ poller'.cycle = poller.cycle
          /\ poller'.round = poller.round
          /\ {o \in poller'.published : o.ups # Head(poller.todo)}
                = {o \in poller.published : o.ups # Head(poller.todo)}]_vars

\* a pass has ended without exception in which fetch_data has raised for the
\* first unit and has then published the load and the status of the second
C36_Witness ==
    /\ poller.pc = "sleep"
    /\ poller.cycle = "ok"
    /\ poller.round = 2
    /\ \E f \in poller.failed :
          /\ f.round = 2
          /\ poller.last.ups # f.ups
          /\ poller.last.stage = "fetched"
          /\ \E o \in poller.published :
                o.ups = poller.last.ups /\ o.key = "ups.load" /\ o.round = 2
          /\ \E o \in poller.published :
                o.ups = poller.last.ups /\ o.key = UPS_STATUS_KEY /\ o.round = 2

\* C37: once initialize_ups has published them, what ups.info and
\* ups.driver.info export is not changed by any pass of the loop, whatever its
\* outcome.
C37_MetadataKept ==
    [][poller.pc # "start" => Metadata(poller'.published) = Metadata(poller.published)]_vars

\* the poller sleeps after a pass that has failed; the poll metrics were
\* cleared and the metadata of the unit is exported
C37_Witness ==
    /\ poller.pc = "sleep"
    /\ poller.state = "FATAL_ERROR"
    /\ poller.last.stage = "fetched"
    /\ poller.last.listed["ups.load"] = Some(<<"5", "0">>)
    /\ Polled(poller.published) = {}
    /\ Metadata(poller.published)
          = {Observation(key, "ups1@h", 0) : key \in service_info_metrics}

\* the keys of service_metrics that list_vars reports, not the poller
NotDerived == service_metrics \ {CALC_UPS_STATUS_KEY}

====
